---------------------------- MODULE Spec2Model ----------------------------
(***************************************************************************)
(* A model of the libmimemagic rule compiler (compile.py, generate.py,    *)
(* utils.py): the string utilities, the rule tree and its nesting stack,  *)
(* the pruner, the code generator, and the control flow of the emitted    *)
(* runTests function.                                                     *)
(*                                                                         *)
(* Text is modelled as a sequence of character codes (Python 2 str: one    *)
(* code in 0..255 per character).  Python's 0-based index ix addresses    *)
(* element ix + 1 of the sequence.                                         *)
(***************************************************************************)
EXTENDS Integers, Sequences, FiniteSets, TLC

VARIABLES
    \* utils.quoteForC: splitStringBytes followed by bytesToC
    input,      \* the argument of splitStringBytes
    ix,         \* splitStringBytes: index of the next character
    bytes,      \* splitStringBytes: the list being built
    spc,        \* position in quoteForC: "split", "split_done", "c", "raised"
    cstr,       \* the result of bytesToC
    \* compile.py: stripAllCmnt and splitLine on one line of the magic file
    lineText,   \* the line given to stripAllCmnt, then to splitLine
    lineRest,   \* splitLine: what is left of its variable line
    lpc,        \* position in the processing of the line
    flds,       \* splitLine: the Fields object fields
    inQuote,    \* splitLine: inQuote
    inRest,     \* splitLine: inRest
    \* compile.py Main: readExceptions, readFile, pruneTree, check, putRoot
    exceptions, \* the set read by readExceptions
    tree,      \* the Test objects in order of construction; tree[1] is the root
    stack,      \* Stack.stack, as indices into tree
    last,       \* readFile: the variable last (0 for None)
    lnum,       \* readFile: the number of lines processed
    line,       \* the Fields of the line processed last
    phase,      \* position in Main: "read", "pruned", "checked", "generated", "raised";
                \* then "running" and "returned" for a call of runTests
    gen,        \* the Generate object: code, data, decls, mapCount
    \* the generated function runTests
    pc,         \* index in gen.code of the next line to execute (0: not running)
    rslt,       \* its local rslt
    haveError,  \* its local haveError
    mimeOut,       \* *mime
    returned,     \* its return value ("none" until it returns)
    sawNeg,     \* some runtime helper has returned a negative result in this run
    offNeg      \* the Tests whose getOffset has returned a negative result in this run

strVars == <<input, ix, bytes, spc, cstr>>

lineVars == <<lineText, lineRest, lpc, flds, inQuote, inRest>>

treeVars == <<exceptions, tree, stack, last, lnum, line, phase, gen>>

runVars == <<pc, rslt, haveError, mimeOut, returned, sawNeg, offNeg>>

vars ==
    <<input, ix, bytes, spc, cstr, lineText, lineRest, lpc, flds, inQuote, inRest, exceptions, tree, stack, last, lnum, line, phase, gen,
      pc, rslt, haveError, mimeOut, returned, sawNeg, offNeg>>

(***************************************************************************)
(* Bounds of the model.                                                    *)
(***************************************************************************)
MaxStrLen == 5      \* longest input string of splitStringBytes
MaxSpin == 2        \* iterations observed of a loop that makes no progress
MaxReadLines == 4   \* longest magic file read, when only reading
MaxPruneLines == 5  \* longest magic file read, when pruning with exceptions
MaxGenLines == 4    \* longest magic file read, when generating every kind of test
MaxRunLines == 4    \* longest magic file read, when running the generated function
MaxCheckLines == 3  \* longest magic file read, when checking the offsets
MaxParseLines == 1  \* longest magic file read, when parsing offsets and targets
MaxOrderLines == 4  \* longest magic file read, when looking at the order of the output
MaxStrengthLines == 4  \* longest magic file read, with strength lines
MaxShortLines == 4  \* longest magic file read, of beshort rules
MaxNestLines == 4  \* longest magic file read, of nested and always-matching rules
MaxLineLen == 7     \* longest line given to splitLine
MaxCmntLen == 5     \* longest string given to stripAllCmnt

(***************************************************************************)
(* Characters.                                                             *)
(***************************************************************************)
\* the printable characters in code order from 32, without the grave accent (96)
Chars ==
    <<" ", "!", "\"", "#", "$", "%", "&", "'", "(", ")", "*", "+", ",", "-", ".", "/",
      "0", "1", "2", "3", "4", "5", "6", "7", "8", "9", ":", ";", "<", "=", ">", "?", "@",
      "A", "B", "C", "D", "E", "F", "G", "H", "I", "J", "K", "L", "M", "N", "O", "P", "Q",
      "R", "S", "T", "U", "V", "W", "X", "Y", "Z", "[", "\\", "]", "^", "_",
      "a", "b", "c", "d", "e", "f", "g", "h", "i", "j", "k", "l", "m", "n", "o", "p", "q",
      "r", "s", "t", "u", "v", "w", "x", "y", "z", "{", "|", "}", "~">>

\* ord(ch)
Ord(ch) ==
    LET code(i) == IF i > 64 THEN i + 32 ELSE i + 31
    IN  code(CHOOSE i \in 1 .. 94 : Chars[i] = ch)

\* the text spelled by a sequence of characters
S(chars) == [k \in DOMAIN chars |-> Ord(chars[k])]

\* the set of the characters of a text
CharSet(chars) == {Ord(chars[k]) : k \in DOMAIN chars}

\* Python's None, distinct from every text
None == <<-1>>

\* string.hexdigits = '0123456789abcdefABCDEF'
HexDigits == (Ord("0") .. Ord("9")) \cup (Ord("a") .. Ord("f")) \cup (Ord("A") .. Ord("F"))

OctDigits == Ord("0") .. Ord("7")

\* the value of one digit character, as int(v, 16) and int(v, 8) read it
DigitVal(c) ==
    IF c \in Ord("0") .. Ord("9") THEN c - Ord("0")
    ELSE IF c \in Ord("a") .. Ord("f") THEN c - Ord("a") + 10
    ELSE c - Ord("A") + 10

RECURSIVE IntOf(_, _)
\* int(v, base) for a non-empty digit string v
IntOf(v, base) ==
    IF v = <<>> THEN 0
    ELSE IntOf(SubSeq(v, 1, Len(v) - 1), base) * base + DigitVal(v[Len(v)])

cEscapes ==
    (Ord("a") :> 7) @@ (Ord("b") :> 8) @@ (Ord("f") :> 12) @@ (Ord("n") :> 10) @@
    (Ord("r") :> 13) @@ (Ord("t") :> 9) @@ (Ord("v") :> 11) @@ (Ord("\\") :> 92)

cUnescapes ==
    (7 :> Ord("a")) @@ (8 :> Ord("b")) @@ (12 :> Ord("f")) @@ (10 :> Ord("n")) @@
    (13 :> Ord("r")) @@ (9 :> Ord("t")) @@ (11 :> Ord("v")) @@ (92 :> Ord("\\")) @@
    (34 :> Ord("\""))

(***************************************************************************)
(* utils.splitStringBytes                                                  *)
(***************************************************************************)
RECURSIVE GrabHex(_, _, _)
\* the inner loop of the \x case: up to two hex digits starting at index i
GrabHex(inp, i, n) ==
    IF n < 2 /\ i < Len(inp) /\ inp[i + 1] \in HexDigits
    THEN <<inp[i + 1]>> \o GrabHex(inp, i + 1, n + 1)
    ELSE <<>>

RECURSIVE GrabOct(_, _)
\* the inner loop of the octal case: every octal digit starting at index i
GrabOct(inp, i) ==
    IF i < Len(inp) /\ inp[i + 1] \in OctDigits
    THEN <<inp[i + 1]>> \o GrabOct(inp, i + 1)
    ELSE <<>>

\* One iteration of the while loop of splitStringBytes, entered with ix < l.
\* raised: int(v, 16) raises ValueError on the empty digit string.
SplitIter(inp, i, bs) ==
    LET l == Len(inp)
        c == inp[i + 1]
        c2 == inp[i + 2]
        hex(v) == IF v = <<>>
                  THEN [ix |-> i + 2, bytes |-> bs, raised |-> TRUE]
                  ELSE [ix |-> i + 2 + Len(v),
                        bytes |-> Append(bs, IntOf(v, 16)),
                        raised |-> FALSE]
        oct(v) == [ix |-> i + 1 + Len(v),
                   bytes |-> Append(bs, IntOf(v, 8)),
                   raised |-> FALSE]
    IN  IF c = Ord("\\")
        THEN IF i + 1 < l
             THEN IF c2 \in DOMAIN cEscapes
                  THEN [ix |-> i + 2, bytes |-> Append(bs, cEscapes[c2]), raised |-> FALSE]
                  ELSE IF c2 = Ord("x")
                  THEN hex(GrabHex(inp, i + 2, 0))
                  ELSE IF c2 \in OctDigits
                  THEN oct(<<c2>> \o GrabOct(inp, i + 2))
                  ELSE [ix |-> i + 2, bytes |-> Append(bs, c2), raised |-> FALSE]
             ELSE \* no character follows the backslash: ix is not advanced
                  [ix |-> i, bytes |-> Append(bs, Ord("\\")), raised |-> FALSE]
        ELSE [ix |-> i + 1, bytes |-> Append(bs, c), raised |-> FALSE]

(***************************************************************************)
(* utils.bytesToC                                                          *)
(***************************************************************************)
HexChar(d) == IF d < 10 THEN Ord("0") + d ELSE Ord("a") + (d - 10)

\* "\\x%02x" % b
HexInsert(b) == <<Ord("\\"), Ord("x"), HexChar(b \div 16), HexChar(b % 16)>>

RECURSIVE BytesToCParts(_, _, _)
\* the for loop of bytesToC and the flush after it: the list parts
BytesToCParts(bs, parts, part) ==
    IF bs = <<>>
    THEN IF part # <<>> THEN Append(parts, part) ELSE parts
    ELSE LET b == Head(bs)
         IN  IF b \in DOMAIN cUnescapes
             THEN BytesToCParts(Tail(bs), parts, part \o <<Ord("\\"), cUnescapes[b]>>)
             ELSE IF b >= 32 /\ b < 128
             THEN BytesToCParts(Tail(bs), parts, Append(part, b))
             ELSE BytesToCParts(Tail(bs),
                                (IF part # <<>> THEN Append(parts, part) ELSE parts)
                                    \o <<HexInsert(b)>>,
                                <<>>)

RECURSIVE JoinQuoted(_)
\* " ".join(['"' + p + '"' for p in parts if p])
JoinQuoted(parts) ==
    IF parts = <<>> THEN <<>>
    ELSE LET q == <<Ord("\"")>> \o Head(parts) \o <<Ord("\"")>>
         IN  IF Len(parts) = 1 THEN q ELSE q \o <<Ord(" ")>> \o JoinQuoted(Tail(parts))

\* bytesToC: chr(b) raises ValueError unless b is in range(256)
BytesToC(bs) ==
    IF \E k \in 1 .. Len(bs) : bs[k] \notin 0 .. 255
    THEN [raised |-> TRUE, text |-> <<>>]
    ELSE [raised |-> FALSE,
          text |-> JoinQuoted(SelectSeq(BytesToCParts(bs, <<>>, <<>>), LAMBDA p : p # <<>>))]

RECURSIVE SplitLoop(_, _, _)
\* the while loop of splitStringBytes run to its end; returns is FALSE when
\* the call raises or an iteration leaves ix and so the loop never ends
SplitLoop(inp, i, bs) ==
    IF i >= Len(inp)
    THEN [returns |-> TRUE, bytes |-> bs]
    ELSE LET next(r) == IF r.raised \/ r.ix = i
                        THEN [returns |-> FALSE, bytes |-> r.bytes]
                        ELSE SplitLoop(inp, r.ix, r.bytes)
         IN  next(SplitIter(inp, i, bs))

SplitStringBytes(inp) == SplitLoop(inp, 0, <<>>)

\* utils.quoteForC
QuoteForC(text) ==
    LET quoted(c) == IF c.raised
                     THEN [returns |-> FALSE, text |-> <<>>]
                     ELSE [returns |-> TRUE, text |-> c.text]
        quote(bs) == IF bs.returns
                     THEN quoted(BytesToC(bs.bytes))
                     ELSE [returns |-> FALSE, text |-> <<>>]
    IN  quote(SplitStringBytes(text))

(***************************************************************************)
(* compile.py: the offset mini-language (class Offset)                     *)
(***************************************************************************)
OffsetTypeFlags == CharSet(<<"b", "i", "s", "l", "B", "I", "S", "L">>)

OffsetOperators == CharSet(<<"+", "*", "/", "%", "&", "|", "^", "-">>)

RECURSIVE NonDotRun(_, _)
\* how many characters other than "." follow position s (0-based) of f
NonDotRun(f, s) ==
    IF s < Len(f) /\ f[s + 1] # Ord(".") THEN 1 + NonDotRun(f, s + 1) ELSE 0

\* offsetRE from position s on, that is ([^.]+)(\.([bislBISL]))?([+*/%&|^-].+)?$
\* with the regex engine's order of attempts: the longest group 2 first, then
\* shorter ones, which can only be followed by group 5
OffsetREFrom(f, s) ==
    LET nmax == NonDotRun(f, s)
        r == SubSeq(f, s + nmax + 1, Len(f))
        r2 == SubSeq(r, 3, Len(r))
        g2max == SubSeq(f, s + 1, s + nmax)
        shorter == {n \in 1 .. nmax - 1 : f[s + n + 1] \in OffsetOperators /\ Len(f) - (s + n) >= 2}
        fail == [matched |-> FALSE, g2 |-> None, g4 |-> None, g5 |-> None]
    IN  IF nmax = 0 THEN fail
        ELSE IF r = <<>>
        THEN [matched |-> TRUE, g2 |-> g2max, g4 |-> None, g5 |-> None]
        ELSE IF Len(r) >= 2 /\ r[2] \in OffsetTypeFlags /\ r2 = <<>>
        THEN [matched |-> TRUE, g2 |-> g2max, g4 |-> <<r[2]>>, g5 |-> None]
        ELSE IF Len(r) >= 2 /\ r[2] \in OffsetTypeFlags /\ r2[1] \in OffsetOperators /\ Len(r2) >= 2
        THEN [matched |-> TRUE, g2 |-> g2max, g4 |-> <<r[2]>>, g5 |-> r2]
        ELSE IF shorter # {}
        THEN LET n == CHOOSE m \in shorter : \A k \in shorter : k <= m
             IN  [matched |-> TRUE, g2 |-> SubSeq(f, s + 1, s + n), g4 |-> None,
                  g5 |-> SubSeq(f, s + n + 1, Len(f))]
        ELSE fail

\* offsetRE.match(f): group 1 is tried present first
OffsetREMatch(f) ==
    LET groups(m, g1) == [matched |-> m.matched, g1 |-> g1, g2 |-> m.g2,
                          g4 |-> m.g4, g5 |-> m.g5]
        with(m) == IF m.matched THEN groups(m, TRUE) ELSE groups(OffsetREFrom(f, 0), FALSE)
    IN  IF f # <<>> /\ f[1] = Ord("&")
        THEN with(OffsetREFrom(f, 1))
        ELSE groups(OffsetREFrom(f, 0), FALSE)

\* an Offset.__init__ that takes an offset relative to the outer one as simple
OffsetInitIndirectOnly(field0) ==
    LET outerRelative == field0[1] = Ord("&")
        field == IF outerRelative THEN Tail(field0) ELSE field0
        indirect == field # <<>> /\ field[1] = Ord("(") /\ field[Len(field)] = Ord(")")
        simple == ~indirect
        fields(m, hit, offset) ==
            [offset |-> offset,
             simple |-> simple,
             noOffset |-> simple /\ offset = S(<<"0">>),
             indirect |-> indirect,
             typeFlag |-> IF hit THEN (IF m.g4 # None THEN m.g4 ELSE S(<<"l">>)) ELSE None,
             operator |-> IF hit /\ m.g5 # None THEN <<m.g5[1]>> ELSE None,
             operand |-> IF hit /\ m.g5 # None THEN Tail(m.g5) ELSE None,
             innerRelative |-> hit /\ m.g1,
             outerRelative |-> outerRelative]
        parsed(m, hit) == fields(m, hit, IF indirect THEN (IF hit THEN m.g2 ELSE None) ELSE field)
        matched(m) == parsed(m, indirect /\ m.matched)
    IN  matched(OffsetREMatch(SubSeq(field, 2, Len(field) - 1)))

\* Offset.__init__(field), field a non-empty text
OffsetInit(field0) ==
    LET outerRelative == field0[1] = Ord("&")
        field == IF outerRelative THEN Tail(field0) ELSE field0
        indirect == field # <<>> /\ field[1] = Ord("(") /\ field[Len(field)] = Ord(")")
        simple == ~indirect /\ ~outerRelative
        fields(m, hit, offset) ==
            [offset |-> offset,
             simple |-> simple,
             noOffset |-> simple /\ offset = S(<<"0">>),
             indirect |-> indirect,
             typeFlag |-> IF hit THEN (IF m.g4 # None THEN m.g4 ELSE S(<<"l">>)) ELSE None,
             operator |-> IF hit /\ m.g5 # None THEN <<m.g5[1]>> ELSE None,
             operand |-> IF hit /\ m.g5 # None THEN Tail(m.g5) ELSE None,
             innerRelative |-> hit /\ m.g1,
             outerRelative |-> outerRelative]
        parsed(m, hit) == fields(m, hit, IF indirect THEN (IF hit THEN m.g2 ELSE None) ELSE field)
        matched(m) == parsed(m, indirect /\ m.matched)
    IN  matched(OffsetREMatch(SubSeq(field, 2, Len(field) - 1)))

\* Offset.check: does one of its three conditions hold?  Each of the three
\* print statements names `field`, which is not defined in check.
OffsetCheckFires(off) ==
    \/ off.offset = None
    \/ off.typeFlag # None /\ off.typeFlag \in {S(<<"i">>), S(<<"I">>), S(<<"m">>)}
    \/ off.operand # None /\ off.operand # <<>> /\ \E k \in DOMAIN off.operand : off.operand[k] = Ord("(")

(***************************************************************************)
(* compile.py: class Test                                                  *)
(*                                                                         *)
(* The tree is the sequence of all Test objects in order of construction; *)
(* a Test is named by its position, the root is Test 1 and `parent = 0`    *)
(* stands for `parent = None`.  testID, used only by the unused           *)
(* partitions(), is left out.                                              *)
(***************************************************************************)
Root == 1

Letters == (Ord("a") .. Ord("z")) \cup (Ord("A") .. Ord("Z"))

Digits == Ord("0") .. Ord("9")

\* \w
WordChars == Letters \cup Digits \cup {Ord("_")}

\* [0-9a-fxA-FX]
MaskChars == HexDigits \cup {Ord("x"), Ord("X")}

integerTests ==
    {S(<<"b", "y", "t", "e">>),
     S(<<"s", "h", "o", "r", "t">>), S(<<"l", "e", "s", "h", "o", "r", "t">>),
     S(<<"b", "e", "s", "h", "o", "r", "t">>),
     S(<<"l", "o", "n", "g">>), S(<<"l", "e", "l", "o", "n", "g">>),
     S(<<"b", "e", "l", "o", "n", "g">>),
     S(<<"q", "u", "a", "d">>), S(<<"l", "e", "q", "u", "a", "d">>),
     S(<<"b", "e", "q", "u", "a", "d">>)}

floatTests ==
    {S(<<"f", "l", "o", "a", "t">>), S(<<"b", "e", "f", "l", "o", "a", "t">>),
     S(<<"l", "e", "f", "l", "o", "a", "t">>), S(<<"d", "o", "u", "b", "l", "e">>),
     S(<<"b", "e", "d", "o", "u", "b", "l", "e">>), S(<<"l", "e", "d", "o", "u", "b", "l", "e">>)}

otherTests ==
    {S(<<"d", "e", "f", "a", "u", "l", "t">>), S(<<"c", "l", "e", "a", "r">>),
     S(<<"r", "e", "g", "e", "x">>)}

T_string == S(<<"s", "t", "r", "i", "n", "g">>)

T_search == S(<<"s", "e", "a", "r", "c", "h">>)

T_regex == S(<<"r", "e", "g", "e", "x">>)

T_default == S(<<"d", "e", "f", "a", "u", "l", "t">>)

T_beshort == S(<<"b", "e", "s", "h", "o", "r", "t">>)

T_x == S(<<"x">>)

\* sys.byteorder of the machine the compiler runs on: 'le' if little else 'be'
HostPrefix == S(<<"l", "e">>)

RECURSIVE RunLen(_, _, _)
\* how many characters of `set` follow position s (0-based) of f
RunLen(f, s, set) ==
    IF s < Len(f) /\ f[s + 1] \in set THEN 1 + RunLen(f, s + 1, set) ELSE 0

\* f.find(c) + 1: the position of the first c in f, 0 when there is none
FirstIndex(f, c) ==
    IF \E k \in DOMAIN f : f[k] = c
    THEN CHOOSE k \in DOMAIN f : f[k] = c /\ \A j \in 1 .. k - 1 : f[j] # c
    ELSE 0

RECURSIVE Tokens(_, _)
\* f.replace(sep, ' ').split() for a text f without white space
Tokens(f, sep) ==
    IF f = <<>> THEN <<>>
    ELSE IF f[1] = sep THEN Tokens(Tail(f), sep)
    ELSE LET k == FirstIndex(f, sep)
             n == IF k = 0 THEN Len(f) ELSE k - 1
         IN  <<SubSeq(f, 1, n)>> \o Tokens(SubSeq(f, n + 1, Len(f)), sep)

\* list.remove(c) when c is in the list: the first occurrence goes
RemoveFirst(f, c) ==
    LET k == FirstIndex(f, c)
    IN  IF k = 0 THEN f ELSE SubSeq(f, 1, k - 1) \o SubSeq(f, k + 1, Len(f))

RECURSIVE FlagLoop(_, _)
\* the loop over the "/"-separated tokens of a test other than regex
FlagLoop(toks, acc) ==
    IF toks = <<>> THEN acc
    ELSE LET f == Head(toks)
         IN  IF f[1] \in Digits
             THEN FlagLoop(Tail(toks), [acc EXCEPT !.limit = f])
             ELSE FlagLoop(Tail(toks), [acc EXCEPT !.flags = acc.flags \o f])

\* Test.setPriority; the limit of a search is read as a decimal number
SetPriority(testCode, testLimit) ==
    IF testCode \in integerTests THEN 0
    ELSE IF testCode = T_string THEN 5
    ELSE IF testCode = T_search
    THEN IF testLimit # None /\ IntOf(testLimit, 10) > 5 THEN 90 ELSE 20
    ELSE IF testCode = T_regex THEN 80
    ELSE 10

\* a parse of the operators that leaves them in the target
TargetOpsUnconsumed(target, first) ==
    LET op1 == target # <<>> /\ target[1] \in first
        t1 == IF op1 THEN Tail(target) ELSE target
        op2 == t1 # <<>> /\ t1[1] = Ord("!")
    IN  [targetOper |-> (IF op1 THEN <<target[1]>> ELSE S(<<"=">>)) \o (IF op2 THEN S(<<"!">>) ELSE <<>>),
         target |-> target]

\* the operator characters taken from the front of the target of a test
\* whose first operator character may be one of `first`
TargetOps(target, first) ==
    LET op1 == target # <<>> /\ target[1] \in first
        t1 == IF op1 THEN Tail(target) ELSE target
        op2 == t1 # <<>> /\ t1[1] = Ord("!")
    IN  [targetOper |-> (IF op1 THEN <<target[1]>> ELSE S(<<"=">>)) \o (IF op2 THEN S(<<"!">>) ELSE <<>>),
         target |-> IF op2 THEN Tail(t1) ELSE t1]

\* Test.parseTest(test, target) for a non-empty text test: the fields it sets
ParseTest(test0, target0) ==
    LET unsigned == test0[1] = Ord("u")
        test1 == IF unsigned THEN Tail(test0) ELSE test0
        isX == target0 = T_x
        \* the assignments to self, from the values parseTest has worked out
        fields(test, mask, parsed, ops, testCode, known) ==
            [unsigned |-> unsigned,
             testCode |-> testCode,
             testFlags |-> SortSeq(parsed.flags, LAMBDA a, b : a < b),
             testMask |-> mask,
             testLimit |-> parsed.limit,
             target |-> IF isX THEN target0 ELSE ops.target,
             targetOper |-> IF isX THEN target0 ELSE ops.targetOper,
             priority |-> SetPriority(testCode, parsed.limit),
             invalid |-> ~isX /\ ~known /\ test \notin otherTests,
             unimplemented |-> ~isX /\ ~known /\ test \in otherTests]
        \* the branches on the test name: the operators of the target and
        \* the host prefix of short, long and quad
        target(test, mask, parsed, isString, isInteger) ==
            fields(test, mask, parsed,
                   IF isString \/ isInteger
                   THEN TargetOps(target0,
                                  IF isString
                                  THEN CharSet(<<"=", "<", ">">>)
                                  ELSE CharSet(<<"=", "<", ">", "&", "^", "~">>))
                   ELSE [targetOper |-> S(<<"=">>), target |-> target0],
                   IF test \in {S(<<"s", "h", "o", "r", "t">>), S(<<"l", "o", "n", "g">>),
                                S(<<"q", "u", "a", "d">>)}
                   THEN HostPrefix \o test ELSE test,
                   isString \/ isInteger)
        named(test, mask, parsed) ==
            target(test, mask, parsed,
                   test = T_string \/ test = T_search \/ test \in floatTests,
                   test \in integerTests)
        \* regexRE = ^(\d+)?([/csl]*)$, group 1 the first d characters
        regexRE(after, d, g2) ==
            IF \A j \in DOMAIN g2 : g2[j] \in CharSet(<<"/", "c", "s", "l">>)
            THEN [limit |-> IF d > 0 THEN SubSeq(after, 1, d) ELSE None,
                  flags |-> (IF \E j \in DOMAIN g2 : g2[j] = Ord("c") THEN S(<<"c">>) ELSE <<>>)
                            \o (IF \E j \in DOMAIN g2 : g2[j] = Ord("s") THEN S(<<"s">>) ELSE <<>>)
                            \o (IF \E j \in DOMAIN g2 : g2[j] = Ord("l") THEN S(<<"l">>) ELSE <<>>)]
            ELSE [limit |-> None, flags |-> <<>>]
        regexDigits(after, d) == regexRE(after, d, SubSeq(after, d + 1, Len(after)))
        \* the flags b and t are removed (once each) after the loop
        looped(loop) ==
            [limit |-> loop.limit,
             flags |-> RemoveFirst(RemoveFirst(loop.flags, Ord("b")), Ord("t"))]
        \* if sep and after
        flagged(test, mask, after) ==
            named(test, mask,
                  IF after = <<>> THEN [limit |-> None, flags |-> <<>>]
                  ELSE IF test = T_regex
                  THEN regexDigits(after, RunLen(after, 0, Digits))
                  ELSE looped(FlagLoop(Tokens(after, Ord("/")),
                                       [limit |-> None, flags |-> <<>>])))
        \* test.partition('/'), k the position of the first '/'
        partition(test, mask, k) ==
            flagged(IF k = 0 THEN test ELSE SubSeq(test, 1, k - 1),
                    mask,
                    IF k = 0 THEN <<>> ELSE SubSeq(test, k + 1, Len(test)))
        unmasked(test, mask) == partition(test, mask, FirstIndex(test, Ord("/")))
        \* maskedRE = ^(\w+)\&([0-9a-fxA-FX]+), w and mk the lengths of its groups
        maskedRE(w, mk, m) ==
            unmasked(IF m THEN SubSeq(test1, 1, w) ELSE test1,
                     IF m THEN SubSeq(test1, w + 2, w + 1 + mk) ELSE None)
        masked(w, mk) ==
            maskedRE(w, mk, w >= 1 /\ w < Len(test1) /\ test1[w + 1] = Ord("&") /\ mk >= 1)
        word(w) == masked(w, RunLen(test1, w + 1, MaskChars))
    IN  word(RunLen(test1, 0, WordChars))

\* the offset of the root (None in the code; the root's offset is never read)
NullOffset ==
    [offset |-> None, simple |-> FALSE, noOffset |-> FALSE, indirect |-> FALSE,
     typeFlag |-> None, operator |-> None, operand |-> None,
     innerRelative |-> FALSE, outerRelative |-> FALSE]

\* Test(-1, -1, None, 'root', ''): no parent, so parseTest is not called
RootTest ==
    [lnum |-> -1, level |-> -1, parent |-> 0, offset |-> NullOffset,
     subtests |-> <<>>, active |-> FALSE, setMime |-> None, mimex |-> FALSE,
     strength |-> 20, unsigned |-> FALSE, testCode |-> None, testFlags |-> <<>>,
     testMask |-> None, testLimit |-> None, target |-> None, targetOper |-> <<>>,
     priority |-> 0, invalid |-> FALSE, unimplemented |-> FALSE]

\* Test.__init__ with a parent: the tree with the new Test added at the end
TestInit(T, lineno, level, offset, testCode, testArg, parent) ==
    LET new(p) ==
               [lnum |-> lineno, level |-> level, parent |-> parent, offset |-> offset,
                subtests |-> <<>>, active |-> FALSE, setMime |-> None, mimex |-> FALSE,
                strength |-> T[parent].strength, unsigned |-> p.unsigned,
                testCode |-> p.testCode, testFlags |-> p.testFlags,
                testMask |-> p.testMask, testLimit |-> p.testLimit,
                target |-> p.target, targetOper |-> p.targetOper,
                priority |-> p.priority, invalid |-> p.invalid,
                unimplemented |-> p.unimplemented]
    IN  Append([T EXCEPT ![parent].subtests = Append(@, Len(T) + 1)],
               new(ParseTest(testCode, testArg)))

\* mime.find('/x-') >= 0
HasXSubtype(mime) ==
    \E k \in 1 .. Len(mime) - 2 : SubSeq(mime, k, k + 2) = S(<<"/", "x", "-">>)

\* a setAction that records the MIME on the parent of the Test
SetActionOnParent(T, t, mime) ==
    [T EXCEPT ![T[t].parent].setMime = mime, ![T[t].parent].mimex = HasXSubtype(mime)]

\* Test.setAction
SetAction(T, t, mime) ==
    [T EXCEPT ![t].setMime = mime, ![t].mimex = HasXSubtype(mime)]

\* a setStrength that also tunes the priority of the Test
SetStrengthTunesPriority(T, t, oper, value) ==
    [T EXCEPT ![t].strength = @ + IntOf(value, 10), ![t].priority = @ + IntOf(value, 10)]

\* Test.setStrength raises: int(value) a ValueError unless value is a decimal
\* number, and strength /= 0 a ZeroDivisionError
SetStrengthRaises(oper, value) ==
    \/ \E k \in DOMAIN value : value[k] \notin Digits
    \/ oper = Ord("/") /\ IntOf(value, 10) = 0

\* Test.setStrength, value a decimal number; Python 2's / on ints rounds down
SetStrength(T, t, oper, value) ==
    LET v == IntOf(value, 10)
        old == T[t].strength
    IN  [T EXCEPT ![t].strength =
            IF oper = Ord("+") THEN old + v
            ELSE IF oper = Ord("-") THEN old - v
            ELSE IF oper = Ord("*") THEN old * v
            ELSE IF oper = Ord("/") /\ v # 0 THEN old \div v
            ELSE old]

(***************************************************************************)
(* compile.py: stripAllCmnt and splitLine                                  *)
(***************************************************************************)
\* \s, and the characters str.strip() and str.split(None) take as white space
Whitespace == {9, 10, 11, 12, 13, 32}

NonWhitespace == (0 .. 255) \ Whitespace

\* what . matches: any character but a newline
NotNewline == (0 .. 255) \ {10}

\* allCmntRE.sub("", line, count = 1) with allCmntRE = ^\s*#.*
StripAllCmnt(x) ==
    LET sub(n) == IF n < Len(x) /\ x[n + 1] = Ord("#")
                  THEN SubSeq(x, n + 2 + RunLen(x, n + 1, NotNewline), Len(x))
                  ELSE x
    IN  sub(RunLen(x, 0, Whitespace))

RECURSIVE RStrip(_)
RStrip(x) ==
    IF x # <<>> /\ x[Len(x)] \in Whitespace THEN RStrip(SubSeq(x, 1, Len(x) - 1)) ELSE x

\* str.strip()
Strip(x) ==
    LET lstrip(y) == SubSeq(y, RunLen(y, 0, Whitespace) + 1, Len(y))
    IN  lstrip(RStrip(x))

\* levelRE.match(line) with levelRE = ^\s*([>]+)(.*)$ ; $ matches at the end
\* and before a newline that ends the string
LevelREMatch(x) ==
    LET groups(a, n, m) ==
            IF n >= 1 /\ (a + n + m = Len(x) \/ a + n + m + 1 = Len(x))
            THEN [matched |-> TRUE, g1 |-> SubSeq(x, a + 1, a + n),
                  g2 |-> SubSeq(x, a + n + 1, a + n + m)]
            ELSE [matched |-> FALSE, g1 |-> <<>>, g2 |-> <<>>]
        rest(a, n) == groups(a, n, RunLen(x, a + n, NotNewline))
        level(a) == rest(a, RunLen(x, a, {Ord(">")}))
    IN  level(RunLen(x, 0, Whitespace))

\* line.split(None, 1): a list of no, one or two strings
Split1(x) ==
    LET parts(a, w, b) ==
            IF w = 0 THEN <<>>
            ELSE IF a + w + b >= Len(x) THEN <<SubSeq(x, a + 1, a + w)>>
            ELSE <<SubSeq(x, a + 1, a + w), SubSeq(x, a + w + b + 1, Len(x))>>
        sep(a, w) == parts(a, w, RunLen(x, a + w, Whitespace))
        word(a) == sep(a, RunLen(x, a, NonWhitespace))
    IN  word(RunLen(x, 0, Whitespace))

\* Fields()
NewFields == [levels |-> <<>>, offset |-> <<>>, test |-> <<>>, target |-> <<>>, msg |-> <<>>]

\* one iteration of `for c in line` of splitLine
TargetStep(f, q, r, c) ==
    IF r THEN [flds |-> [f EXCEPT !.msg = Append(@, c)], inQuote |-> q, inRest |-> r]
    ELSE IF q
    THEN [flds |-> [f EXCEPT !.target = (IF c # Ord(" ") THEN Append(@, Ord("\\")) ELSE @) \o <<c>>],
          inQuote |-> FALSE, inRest |-> r]
    ELSE IF c = Ord("\\") THEN [flds |-> f, inQuote |-> TRUE, inRest |-> r]
    ELSE IF c = Ord(" ") \/ c = 9 THEN [flds |-> f, inQuote |-> q, inRest |-> TRUE]
    ELSE [flds |-> [f EXCEPT !.target = Append(@, c)], inQuote |-> q, inRest |-> r]

(***************************************************************************)
(* compile.py: class Stack, the nesting of tests                           *)
(***************************************************************************)
RECURSIVE ParentForStrict(_, _, _)
\* a parentFor that keeps a Test of the same level on the stack
ParentForStrict(T, stk, level) ==
    IF T[stk[Len(stk)]].level > level
    THEN ParentForStrict(T, SubSeq(stk, 1, Len(stk) - 1), level)
    ELSE stk

RECURSIVE ParentFor(_, _, _)
\* Stack.parentFor: the stack after the pops; its top is the parent
ParentFor(T, stk, level) ==
    IF T[stk[Len(stk)]].level >= level
    THEN ParentFor(T, SubSeq(stk, 1, Len(stk) - 1), level)
    ELSE stk

\* a newTest that appends the test twice
NewTestTwice(T, stk, test) ==
    IF T[test].level > T[stk[Len(stk)]].level THEN Append(Append(stk, test), test) ELSE stk

\* Stack.newTest
NewTest(T, stk, test) ==
    IF T[test].level > T[stk[Len(stk)]].level THEN Append(stk, test) ELSE stk

(***************************************************************************)
(* compile.py: parseFields and the loop of readFile                        *)
(***************************************************************************)
F_mime == S(<<"!", ":", "m", "i", "m", "e">>)

F_strength == S(<<"!", ":", "s", "t", "r", "e", "n", "g", "t", "h">>)

F_apple == S(<<"!", ":", "a", "p", "p", "l", "e">>)

F_name == S(<<"n", "a", "m", "e">>)

\* strengthRE = ^([+*/-])\s*(\w+)$ on a text without white space
StrengthREMatch(f) ==
    /\ Len(f) >= 2
    /\ f[1] \in CharSet(<<"+", "*", "/", "-">>)
    /\ \A k \in 2 .. Len(f) : f[k] \in WordChars

\* parseFields(fields, lnum, lastTest, stack): the tree and the stack after
\* the call, and its result (0 for None)
ParseFields(T, stk, fields, lineno, lastTest) ==
    IF fields.offset = F_mime
    THEN [tests |-> IF lastTest # 0 THEN SetAction(T, lastTest, fields.test) ELSE T,
          stack |-> stk, result |-> 0, raised |-> FALSE]
    ELSE IF fields.offset = F_strength
    THEN LET f == fields.test \o fields.target
             applies == StrengthREMatch(f) /\ lastTest # 0
             raises == applies /\ SetStrengthRaises(f[1], Tail(f))
         IN  [tests |-> IF applies /\ ~raises
                        THEN SetStrength(T, lastTest, f[1], Tail(f))
                        ELSE T,
              stack |-> stk, result |-> 0, raised |-> raises]
    ELSE IF fields.offset = F_apple \/ fields.test = F_name
    THEN [tests |-> T, stack |-> stk, result |-> 0, raised |-> FALSE]
    ELSE LET level == Len(fields.levels)
             \* stack.newTest(test); return test
             added(T1, stk1) ==
                 [tests |-> T1, stack |-> NewTest(T1, stk1, Len(T1)), result |-> Len(T1),
                  raised |-> FALSE]
             \* stk1 is the stack parentFor leaves, the parent on its top
             child(stk1) ==
                 added(TestInit(T, lineno, level, OffsetInit(fields.offset),
                                fields.test, fields.target, stk1[Len(stk1)]),
                       stk1)
         IN  child(ParentFor(T, stk, level))

(***************************************************************************)
(* compile.py: Test.pruneTree, Test.check, Test.depth                      *)
(***************************************************************************)
\* a pruneTree that marks the Test but not its ancestors
SetActiveOnly(T, t) ==
    IF t = 0 THEN T ELSE [T EXCEPT ![t].active = TRUE]

\* a pruneTree that does not look at the exceptions
KeepsAnyMime(T, t, E) == T[t].setMime # None /\ T[t].setMime # <<>>

RECURSIVE SetActiveUp(_, _)
\* self.active = True, then the same for every ancestor up to the root
SetActiveUp(T, t) ==
    IF t = 0 THEN T ELSE SetActiveUp([T EXCEPT ![t].active = TRUE], T[t].parent)

\* t.setMime and t.setMime not in exceptions
KeepsMime(T, t, E) == T[t].setMime # None /\ T[t].setMime # <<>> /\ T[t].setMime \notin E

RECURSIVE PruneTree(_, _, _)
RECURSIVE PruneLoop(_, _, _, _, _)
\* the for loop of pruneTree over the subtests not yet visited
PruneLoop(T, self, E, subs, newsubs) ==
    IF subs = <<>> THEN [tests |-> T, newsubs |-> newsubs]
    ELSE LET t == Head(subs)
         IN  IF KeepsMime(T, t, E)
             THEN LET T1 == PruneTree([T EXCEPT ![t].active = TRUE], t, E)
                      T2 == IF ~T1[self].active THEN SetActiveUp(T1, self) ELSE T1
                  IN  PruneLoop(T2, self, E, Tail(subs), Append(newsubs, t))
             ELSE LET T1 == PruneTree(T, t, E)
                  IN  PruneLoop(T1, self, E, Tail(subs),
                                IF T1[t].active THEN Append(newsubs, t) ELSE newsubs)

\* Test.pruneTree(exceptions) called on Test self
PruneTree(T, self, E) ==
    LET r == PruneLoop(T, self, E, T[self].subtests, <<>>)
    IN  [r.tests EXCEPT ![self].subtests = r.newsubs]

RECURSIVE Descendants(_, _)
\* the Tests below t in the tree, through the subtests lists
Descendants(T, t) ==
    LET subs == {T[t].subtests[k] : k \in DOMAIN T[t].subtests}
    IN  subs \cup UNION {Descendants(T, c) : c \in subs}

\* Test.check on the root: does some Offset.check reach a print statement?
\* Each of them names `field`, which check does not define (NameError).
CheckRaises(T) == \E t \in Descendants(T, Root) : OffsetCheckFires(T[t].offset)

SetMax(xs) == CHOOSE m \in xs : \A x \in xs : x <= m

RECURSIVE Depth(_, _)
\* Test.depth
Depth(T, t) ==
    SetMax({0} \cup {Depth(T, T[t].subtests[k]) : k \in DOMAIN T[t].subtests}) + 1

(***************************************************************************)
(* generate.py: class Generate                                             *)
(*                                                                         *)
(* The code stream is a sequence of lines.  A line is a record: k is the  *)
(* statement printed, ind its indentation (the level given to mkIndent),   *)
(* v the numbers N of the variable offN it assigns or passes, u those of   *)
(* the outer variable it adds, f the runtime function it calls, targ      *)
(* and opt the other texts printed, and own the Tests the line is printed  *)
(* for (not part of the output; it names the block a line belongs to).     *)
(***************************************************************************)
Line(k, ind, own) ==
    [k |-> k, ind |-> ind, v |-> {}, u |-> {}, f |-> "", targ |-> <<>>, opt |-> <<>>,
     own |-> own]

stringFuncs ==
    (S(<<"=">>) :> "stringEqual") @@ (S(<<"=", "!">>) :> "!stringEqual") @@
    (S(<<"<">>) :> "stringLess") @@ (S(<<"<", "!">>) :> "!stringLess") @@
    (S(<<">">>) :> "stringGreater") @@ (S(<<">", "!">>) :> "!stringGreater")

simpleIntFuncs ==
    (S(<<"b", "y", "t", "e">>) :> "byteMatch") @@
    (S(<<"s", "h", "o", "r", "t">>) :> "shortMatch") @@
    (S(<<"l", "o", "n", "g">>) :> "longMatch") @@
    (S(<<"q", "u", "a", "d">>) :> "quadMatch") @@
    (S(<<"b", "e", "s", "h", "o", "r", "t">>) :> "beShortMatch") @@
    (S(<<"b", "e", "l", "o", "n", "g">>) :> "beLongMatch") @@
    (S(<<"b", "e", "q", "u", "a", "d">>) :> "beQuadMatch") @@
    (S(<<"l", "e", "s", "h", "o", "r", "t">>) :> "leShortMatch") @@
    (S(<<"l", "e", "l", "o", "n", "g">>) :> "leLongMatch") @@
    (S(<<"l", "e", "q", "u", "a", "d">>) :> "leQuadMatch")

compareCodes ==
    (Ord("=") :> "CompareEq") @@ (Ord("<") :> "CompareLt") @@ (Ord(">") :> "CompareGt") @@
    (Ord("&") :> "CompareSet") @@ (Ord("^") :> "CompareClr") @@ (Ord("~") :> "CompareNeg") @@
    (Ord("!") :> "CompareNot")

\* Generate.__init__
NewGenerate == [code |-> <<>>, data |-> <<>>, decls |-> <<>>, mapCount |-> 1]

Emit(g, lines) == [g EXCEPT !.code = @ \o lines]

\* print >> self.code, when test.level == 0
BlankIfTop(T, t, level) == IF T[t].level = 0 THEN <<Line("blank", 0, {t})>> ELSE <<>>

\* '%s// line %s' % (indent, test.lnum)
CommentLine(T, t, level, own) == [Line("comment", level, own) EXCEPT !.targ = <<T[t].lnum>>]

\* '%sif (rslt < 0) haveError = True;'
IfErrLine(level, own) == Line("ifErr", level, own)

\* utils.addIndent(innerCode, 1)
AddIndent(lines) == [k \in DOMAIN lines |-> [lines[k] EXCEPT !.ind = @ + 1]]

\* an ovar numbered by the indentation
OvarOfIndent(T, t, level) == level

\* ovar = mkOvar(test.level)
Ovar(T, t, level) == T[t].level

\* a genOffset that prints the inner code after the error test, without else
GenOffsetLinesNoElse(T, t, innerCode, level) ==
    LET off == T[t].offset
        ovar == Ovar(T, t, level)
        own == {t}
        assign == [Line("assign", level, own) EXCEPT !.v = {ovar}, !.targ = off.offset]
        addOuter == [Line("addOuter", level, own) EXCEPT !.v = {ovar}, !.u = {T[t].level - 1}]
        getOff == [Line("getOffset", level, own) EXCEPT !.v = {ovar}, !.f = "getOffset",
                                                         !.targ = off.typeFlag]
        opAssign == [Line("opAssign", level, own) EXCEPT !.v = {ovar}, !.targ = off.operand,
                                                          !.opt = <<off.operator>>]
    IN  <<assign>>
        \o (IF off.indirect
            THEN (IF off.innerRelative THEN <<addOuter>> ELSE <<>>)
                 \o <<getOff>>
                 \o (IF off.operand # None /\ off.operand # <<>> THEN <<opAssign>> ELSE <<>>)
            ELSE <<>>)
        \o (IF off.outerRelative THEN <<addOuter>> ELSE <<>>)
        \o (IF off.indirect THEN <<IfErrLine(level, own)>> ELSE <<>>)
        \o innerCode

\* Generate.genOffset(test, innerCode, level): the lines it prints
GenOffsetLines(T, t, innerCode, level) ==
    LET off == T[t].offset
        ovar == Ovar(T, t, level)
        own == {t}
        assign == [Line("assign", level, own) EXCEPT !.v = {ovar}, !.targ = off.offset]
        addOuter == [Line("addOuter", level, own) EXCEPT !.v = {ovar}, !.u = {T[t].level - 1}]
        getOff == [Line("getOffset", level, own) EXCEPT !.v = {ovar}, !.f = "getOffset",
                                                         !.targ = off.typeFlag]
        opAssign == [Line("opAssign", level, own) EXCEPT !.v = {ovar}, !.targ = off.operand,
                                                          !.opt = <<off.operator>>]
    IN  <<assign>>
        \o (IF off.indirect
            THEN (IF off.innerRelative THEN <<addOuter>> ELSE <<>>)
                 \o <<getOff>>
                 \o (IF off.operand # None /\ off.operand # <<>> THEN <<opAssign>> ELSE <<>>)
            ELSE <<>>)
        \o (IF off.outerRelative THEN <<addOuter>> ELSE <<>>)
        \o (IF off.indirect
            THEN <<IfErrLine(level, own), Line("else", level, own), Line("{", level, own)>>
                 \o AddIndent(innerCode)
                 \o <<Line("}", level, own)>>
            ELSE innerCode)

GenOffset(T, g, t, innerCode, level) == Emit(g, GenOffsetLines(T, t, innerCode, level))

\* the two lines every lowering puts in `inner`: the call and the error test
InnerCode(T, t, level, func, targ, opt) ==
    <<[Line("call", level, {t}) EXCEPT !.v = {Ovar(T, t, level)}, !.f = func, !.targ = targ, !.opt = opt],
      IfErrLine(level, {t})>>

\* Generate.genCompareCodes
GenCompareCodes(T, t) ==
    LET oper == T[t].targetOper
        known == SelectSeq(oper, LAMBDA c : c \in DOMAIN compareCodes)
    IN  [k \in DOMAIN known |-> compareCodes[known[k]]]

\* a selectSimpleBeShortTests that takes unsigned tests too
IsSimpleBeShortAnySign(T, t) ==
    /\ T[t].testCode = T_beshort
    /\ T[t].targetOper = S(<<"=">>)
    /\ T[t].setMime # None /\ T[t].setMime # <<>>
    /\ T[t].offset.noOffset

\* Generate.selectSimpleBeShortTests
IsSimpleBeShort(T, t) ==
    /\ T[t].testCode = T_beshort
    /\ ~T[t].unsigned
    /\ T[t].targetOper = S(<<"=">>)
    /\ T[t].setMime # None /\ T[t].setMime # <<>>
    /\ T[t].offset.noOffset

\* Generate.selectSimpleStringTests: the test of its first branch
IsSimpleString(T, t) ==
    T[t].testCode = T_string /\ T[t].testFlags = <<>> /\ T[t].offset.simple

\* Generate.selectSimpleStringMime
IsSimpleStringMime(T, t) ==
    T[t].setMime # None /\ T[t].setMime # <<>> /\ T[t].offset.noOffset

RECURSIVE LexLess(_, _)
\* a < b for two Python lists of integers
LexLess(a, b) ==
    IF b = <<>> THEN FALSE
    ELSE IF a = <<>> THEN TRUE
    ELSE IF a[1] # b[1] THEN a[1] < b[1]
    ELSE LexLess(Tail(a), Tail(b))

\* a putStringMap that leaves the rows as they come
UnsortedRows(rows) == rows

RECURSIVE SortRows(_)
\* targets.sort(key = lambda triple: triple[0]): a stable sort
SortRows(rows) ==
    IF rows = <<>> THEN <<>>
    ELSE LET rest == SortRows(SubSeq(rows, 1, Len(rows) - 1))
             x == rows[Len(rows)]
             n == Cardinality({k \in DOMAIN rest : ~LexLess(x.bytes, rest[k].bytes)})
         IN  SubSeq(rest, 1, n) \o <<x>> \o SubSeq(rest, n + 1, Len(rest))

\* the six lines that call a map function and return on a match
MapCallLines(T, tests, level, func, n) ==
    LET own == {tests[k] : k \in DOMAIN tests}
        first == tests[1]
    IN  (IF T[first].level = 0 THEN <<Line("blank", 0, own)>> ELSE <<>>)
        \o <<CommentLine(T, first, level, own),
             [Line("mapCall", level, own) EXCEPT !.f = func, !.opt = <<n>>],
             IfErrLine(level, own),
             Line("ifPos", level, own),
             Line("{", level, own),
             Line("return", level + 1, own),
             Line("}", level, own)>>

\* Generate.putStringMap
PutStringMap(T, g, tests, level) ==
    LET row(t, bs) == [bytes |-> bs,
                       targ |-> BytesToC(bs).text,
                       mask |-> <<>>,
                       mime |-> QuoteForC(T[t].setMime).text,
                       test |-> t]
        rows == [k \in DOMAIN tests |->
                    row(tests[k], SplitStringBytes(T[tests[k]].target).bytes)]
        table == [name |-> "stringMap", n |-> g.mapCount, rows |-> SortRows(rows)]
    IN  [g EXCEPT !.mapCount = @ + 1,
                  !.data = Append(@, table),
                  !.code = @ \o MapCallLines(T, tests, level, "stringEqualMap", g.mapCount)]

\* Generate.putBeShortGroup
PutBeShortGroup(T, g, tests, level) ==
    LET rows == [k \in DOMAIN tests |->
                    [bytes |-> <<>>,
                     targ |-> T[tests[k]].target,
                     mask |-> IF T[tests[k]].testMask = None
                              THEN S(<<"0", "x", "f", "f", "f", "f">>)
                              ELSE T[tests[k]].testMask,
                     mime |-> QuoteForC(T[tests[k]].setMime).text,
                     test |-> tests[k]]]
        table == [name |-> "beshortMap", n |-> g.mapCount, rows |-> rows]
    IN  [g EXCEPT !.mapCount = @ + 1,
                  !.data = Append(@, table),
                  !.code = @ \o MapCallLines(T, tests, level, "beShortGroup", g.mapCount)]

RECURSIVE ReverseSortedSeq(_)
\* the keys of a dict, largest first
ReverseSortedSeq(xs) ==
    IF xs = {} THEN <<>>
    ELSE LET m == CHOOSE x \in xs : \A y \in xs : x >= y
         IN  <<m>> \o ReverseSortedSeq(xs \ {m})

RECURSIVE SortedSeq(_)
\* the keys of a dict, sorted
SortedSeq(xs) ==
    IF xs = {} THEN <<>>
    ELSE LET m == CHOOSE x \in xs : \A y \in xs : x <= y
         IN  <<m>> \o SortedSeq(xs \ {m})

RECURSIVE PutTests(_, _, _, _)
RECURSIVE PutParts(_, _, _, _, _)
RECURSIVE PutTests2(_, _, _, _)
RECURSIVE PutSimpleStrings(_, _, _, _)
RECURSIVE PutGeneralTests(_, _, _, _)
RECURSIVE PutSimpleString(_, _, _, _)
RECURSIVE PutGeneralTest(_, _, _, _)
RECURSIVE PutTestBody(_, _, _, _)
RECURSIVE PutTestContent(_, _, _, _)

\* a putTestContent that goes on to the subtests after the MIME
PutTestContentAndSubtests(T, g, t, level) ==
    PutTests(T,
             IF T[t].setMime # None /\ T[t].setMime # <<>>
             THEN Emit(g, <<[Line("mime", level, {t}) EXCEPT !.targ = QuoteForC(T[t].setMime).text],
                            Line("return", level, {t})>>)
             ELSE g,
             T[t].subtests, level)

\* Generate.putTestContent
PutTestContent(T, g, t, level) ==
    IF T[t].setMime # None /\ T[t].setMime # <<>>
    THEN Emit(g, <<[Line("mime", level, {t}) EXCEPT !.targ = QuoteForC(T[t].setMime).text],
                   Line("return", level, {t})>>)
    ELSE PutTests(T, g, T[t].subtests, level)

\* Generate.putTestBody
PutTestBody(T, g, t, level) ==
    LET g1 == Emit(g, <<Line("ifPos", level, {t}), Line("{", level, {t})>>)
        g2 == PutTestContent(T, g1, t, level + 1)
    IN  Emit(g2, <<Line("}", level, {t})>>)

\* the lowerings that print a comment, an offset preamble, a call and a body
PutCall(T, g, t, level, func, targ, opt) ==
    LET g1 == Emit(g, BlankIfTop(T, t, level) \o <<CommentLine(T, t, level, {t})>>)
        g2 == GenOffset(T, g1, t, InnerCode(T, t, level, func, targ, opt), level)
    IN  PutTestBody(T, g2, t, level)

\* Generate.putSimpleString
PutSimpleString(T, g, t, level) ==
    IF T[t].targetOper \in DOMAIN stringFuncs
    THEN PutCall(T, g, t, level, stringFuncs[T[t].targetOper],
                 QuoteForC(T[t].target).text, <<>>)
    ELSE IF T[t].targetOper = T_x
    THEN PutTestContent(T, g, t, level)
    ELSE g

\* the names of the flags of a string or search test, joined by '|'
WsFlags(T, t) ==
    LET has(c) == \E k \in DOMAIN T[t].testFlags : T[t].testFlags[k] = Ord(c)
    IN  <<"0">> \o (IF has("w") THEN <<"IgnoreWS">> ELSE <<>>)
               \o (IF has("W") THEN <<"CompactWS">> ELSE <<>>)
               \o (IF has("c") THEN <<"MatchLower">> ELSE <<>>)
               \o (IF has("C") THEN <<"MatchUpper">> ELSE <<>>)

\* Generate.putGeneralTest: the branch taken gives the helper to call, its
\* target and its other arguments, or only the content, or nothing at all
PutGeneralTest(T, g, t, level) ==
    LET code == T[t].testCode
        hasOp(c) == \E k \in DOMAIN T[t].targetOper : T[t].targetOper[k] = Ord(c)
        hasFlag(c) == \E k \in DOMAIN T[t].testFlags : T[t].testFlags[k] = Ord(c)
        limit == T[t].testLimit
        call(func, targ, opt) == [func |-> func, targ |-> targ, opt |-> opt]
        quoted(func, opt) == call(func, QuoteForC(T[t].target).text, opt)
        put(c) == IF c.func = "content" THEN PutTestContent(T, g, t, level)
                  ELSE IF c.func = "nothing" THEN g
                  ELSE PutCall(T, g, t, level, c.func, c.targ, c.opt)
    IN  put(IF code = T_default \/ T[t].targetOper = T_x
            THEN call("content", <<>>, <<>>)
            ELSE IF code = T_string
            THEN quoted("stringMatch",
                        <<(IF hasOp("=") THEN <<"CompareEq">> ELSE <<>>)
                            \o (IF hasOp("<") THEN <<"CompareLt">> ELSE <<>>)
                            \o (IF hasOp(">") THEN <<"CompareGt">> ELSE <<>>)
                            \o (IF hasOp("!") THEN <<"CompareNot">> ELSE <<>>),
                          WsFlags(T, t)>>)
            ELSE IF code = T_search
            THEN IF limit = None THEN call("nothing", <<>>, <<>>)
                 ELSE quoted("stringSearch", <<limit, WsFlags(T, t)>>)
            ELSE IF code = T_regex
            THEN quoted("regexMatch",
                        <<(IF limit = None THEN S(<<"0">>) ELSE limit)
                            \o (IF hasFlag("l") THEN S(<<" ", "*", " ", "8", "0">>) ELSE <<>>),
                          <<"0">> \o (IF hasFlag("c") THEN <<"RegexNoCase">> ELSE <<>>)
                                 \o (IF hasFlag("s") THEN <<"RegexBegin">> ELSE <<>>)>>)
            ELSE IF code \in DOMAIN simpleIntFuncs
            THEN call(simpleIntFuncs[code], T[t].target,
                      <<GenCompareCodes(T, t),
                        IF T[t].testMask # None /\ T[t].testMask # <<>>
                        THEN T[t].testMask
                        ELSE S(<<"0", "x", "f", "f", "f", "f", "f", "f", "f", "f">>)>>)
            ELSE call("nothing", <<>>, <<>>))

\* for t in ...: self.putSimpleString(t, level)
PutSimpleStrings(T, g, tests, level) ==
    IF tests = <<>> THEN g
    ELSE PutSimpleStrings(T, PutSimpleString(T, g, Head(tests), level), Tail(tests), level)

\* for t in rest2: self.putGeneralTest(t, level)
PutGeneralTests(T, g, tests, level) ==
    IF tests = <<>> THEN g
    ELSE PutGeneralTests(T, PutGeneralTest(T, g, Head(tests), level), Tail(tests), level)

\* putTests2 with the general tests lowered ahead of the map calls
PutTests2GeneralFirst(T, g, tests, level) ==
    LET beshort == SelectSeq(tests, LAMBDA t : IsSimpleBeShort(T, t))
        rest1 == SelectSeq(tests, LAMBDA t : ~IsSimpleBeShort(T, t))
        strs == SelectSeq(rest1, LAMBDA t : IsSimpleString(T, t))
        rest2 == SelectSeq(rest1, LAMBDA t : ~IsSimpleString(T, t))
        strMime == SelectSeq(strs, LAMBDA t : T[t].targetOper = S(<<"=">>)
                                              /\ IsSimpleStringMime(T, t))
        strRest == SelectSeq(strs, LAMBDA t : ~(T[t].targetOper = S(<<"=">>)
                                                /\ IsSimpleStringMime(T, t)))
        strings(g2) == PutSimpleStrings(T, g2, strRest, level)
        stringMap(g1) == strings(IF strMime # <<>> THEN PutStringMap(T, g1, strMime, level) ELSE g1)
        beShortMap(g0) == stringMap(IF beshort # <<>> THEN PutBeShortGroup(T, g0, beshort, level) ELSE g0)
    IN  beShortMap(PutGeneralTests(T, g, rest2, level))

\* Generate.putTests2
PutTests2(T, g, tests, level) ==
    LET beshort == SelectSeq(tests, LAMBDA t : IsSimpleBeShort(T, t))
        rest1 == SelectSeq(tests, LAMBDA t : ~IsSimpleBeShort(T, t))
        strs == SelectSeq(rest1, LAMBDA t : IsSimpleString(T, t))
        rest2 == SelectSeq(rest1, LAMBDA t : ~IsSimpleString(T, t))
        strEquals == SelectSeq(strs, LAMBDA t : T[t].targetOper = S(<<"=">>))
        strNotEquals == SelectSeq(strs, LAMBDA t : T[t].targetOper = S(<<"=", "!">>))
        strOtherOper == SelectSeq(strs, LAMBDA t : T[t].targetOper \notin {S(<<"=">>), S(<<"=", "!">>)})
        strMime == SelectSeq(strEquals, LAMBDA t : IsSimpleStringMime(T, t))
        strEquals2 == SelectSeq(strEquals, LAMBDA t : ~IsSimpleStringMime(T, t))
        strings(g2) ==
            PutGeneralTests(T,
                PutSimpleStrings(T,
                    PutSimpleStrings(T,
                        PutSimpleStrings(T, g2, strEquals2, level),
                        strNotEquals, level),
                    strOtherOper, level),
                rest2, level)
        stringMap(g1) == strings(IF strMime # <<>> THEN PutStringMap(T, g1, strMime, level) ELSE g1)
    IN  stringMap(IF beshort # <<>> THEN PutBeShortGroup(T, g, beshort, level) ELSE g)

\* the loop of putTests over the sorted priorities
PutParts(T, g, tests, prios, level) ==
    IF prios = <<>> THEN g
    ELSE PutParts(T,
                  PutTests2(T, g, SelectSeq(tests, LAMBDA t : T[t].priority = Head(prios)), level),
                  tests, Tail(prios), level)

\* Generate.putTests: utils.partitionByKey by priority, the keys sorted
PutTests(T, g, tests, level) ==
    PutParts(T, g, tests, SortedSeq({T[tests[k]].priority : k \in DOMAIN tests}), level)

\* Generate.putRoot: decls lists the N of the variables offN declared
PutRoot(T) ==
    LET g == PutTests(T, NewGenerate, T[Root].subtests, 1)
    IN  [g EXCEPT !.decls = [n \in 1 .. Depth(T, Root) |-> n - 1]]

\* putRoot calls quoteForC on targets and MIME strings; a call that raises
\* (or never returns) ends the program before any output is written
PutRootRaises(T) ==
    \E t \in Descendants(T, Root) :
        \/ T[t].setMime # None /\ ~QuoteForC(T[t].setMime).returns
        \/ /\ T[t].testCode \in {T_string, T_search, T_regex}
           /\ T[t].target # None
           /\ ~QuoteForC(T[t].target).returns

(***************************************************************************)
(* compile.py: Main.  readFile takes one line per step; the lines of the   *)
(* magic file are drawn from a catalogue of Fields, as splitLine returns   *)
(* them.                                                                   *)
(***************************************************************************)
\* class Fields, filled in by splitLine; n is the number of leading '>'
Fields(n, offset, test, target) ==
    [levels |-> [k \in 1 .. n |-> Ord(">")], offset |-> offset, test |-> test,
     target |-> target]

\* readFile before its loop: root, Stack(root), lnum = 0, last = None
MainInit(Es) ==
    /\ exceptions \in Es
    /\ tree = <<RootTest>>
    /\ stack = <<Root>>
    /\ last = 0
    /\ lnum = 0
    /\ line = Fields(0, <<>>, <<>>, <<>>)
    /\ phase = "read"
    /\ gen = NewGenerate

\* no line is being processed
LineIdle ==
    /\ lineText = <<>>
    /\ lineRest = <<>>
    /\ lpc = "idle"
    /\ flds = NewFields
    /\ inQuote = FALSE
    /\ inRest = FALSE

StrIdle ==
    /\ input = <<>>
    /\ ix = 0
    /\ bytes = <<>>
    /\ spc = "split"
    /\ cstr = <<>>

RunIdle ==
    /\ pc = 0
    /\ rslt = 0
    /\ haveError = FALSE
    /\ mimeOut = None
    /\ returned = "none"
    /\ sawNeg = FALSE
    /\ offNeg = {}

\* one iteration of the loop `for line in lines` of readFile, on a line of
\* Cat, in a file of at most Max lines
ReadLine(Cat, Max) ==
    /\ phase = "read"
    /\ lnum < Max
    /\ \E f \in Cat :
          LET parsed(r) ==
                  /\ tree' = r.tests
                  /\ stack' = r.stack
                  /\ last' = IF r.result # 0 THEN r.result ELSE last
                  /\ line' = f
                  /\ phase' = IF r.raised THEN "raised" ELSE phase
          IN  parsed(ParseFields(tree, stack, f, lnum + 1, last))
    /\ lnum' = lnum + 1
    /\ UNCHANGED <<exceptions, gen>>
    /\ UNCHANGED strVars
    /\ UNCHANGED lineVars
    /\ UNCHANGED runVars

\* the end of the file: readFile returns and Main calls root.pruneTree(exceptions)
Prune ==
    /\ phase = "read"
    /\ tree' = PruneTree(tree, Root, exceptions)
    /\ phase' = "pruned"
    /\ UNCHANGED <<exceptions, stack, last, lnum, line, gen>>
    /\ UNCHANGED strVars
    /\ UNCHANGED lineVars
    /\ UNCHANGED runVars

\* root.check()
Check ==
    /\ phase = "pruned"
    /\ phase' = IF CheckRaises(tree) THEN "raised" ELSE "checked"
    /\ UNCHANGED <<exceptions, tree, stack, last, lnum, line, gen>>
    /\ UNCHANGED strVars
    /\ UNCHANGED lineVars
    /\ UNCHANGED runVars

\* gen = Generate(); gen.putRoot(root)
Generate ==
    /\ phase = "checked"
    /\ IF PutRootRaises(tree)
       THEN phase' = "raised" /\ gen' = gen
       ELSE phase' = "generated" /\ gen' = PutRoot(tree)
    /\ UNCHANGED <<exceptions, tree, stack, last, lnum, line>>
    /\ UNCHANGED strVars
    /\ UNCHANGED lineVars
    /\ UNCHANGED runVars

(***************************************************************************)
(* generate.py, writeToFile: the function runTests it writes around the    *)
(* code stream, executed one line per step.  The runtime functions are     *)
(* not part of the generator: a call returns a negative number (an         *)
(* error), zero (no match) or a positive number (a match).                 *)
(***************************************************************************)
HelperResults == {-1, 0, 1}

\* stringFuncs: the entries that put ! in front of the call
Negated(f) == f \in {"!stringEqual", "!stringLess", "!stringGreater"}

RECURSIVE MatchClose(_, _, _)
\* the index of the } that closes the block opened before line j, depth
\* blocks deep
MatchClose(code, j, depth) ==
    IF j > Len(code) THEN j
    ELSE IF code[j].k = "{" THEN MatchClose(code, j + 1, depth + 1)
    ELSE IF code[j].k = "}"
    THEN IF depth = 1 THEN j ELSE MatchClose(code, j + 1, depth - 1)
    ELSE MatchClose(code, j + 1, depth)

\* the line after the block { ... } that starts at line j
AfterBlock(code, j) == MatchClose(code, j, 0) + 1

AtLine(kinds) ==
    /\ phase = "running"
    /\ pc \in DOMAIN gen.code
    /\ gen.code[pc].k \in kinds

\* runTests is called: Result rslt (not initialised); Bool haveError = False
RunStart ==
    /\ phase = "generated"
    /\ phase' = "running"
    /\ pc' = 1
    /\ rslt' \in HelperResults
    /\ haveError' = FALSE
    /\ UNCHANGED <<mimeOut, returned, sawNeg, offNeg>>
    /\ UNCHANGED <<exceptions, tree, stack, last, lnum, line, gen>>
    /\ UNCHANGED strVars
    /\ UNCHANGED lineVars

\* a line that neither calls nor branches: a comment, offN = ..., a brace
RunPlain ==
    /\ AtLine({"blank", "comment", "assign", "addOuter", "opAssign", "{", "}"})
    /\ pc' = pc + 1
    /\ UNCHANGED <<rslt, haveError, mimeOut, returned, sawNeg, offNeg>>
    /\ UNCHANGED treeVars
    /\ UNCHANGED strVars
    /\ UNCHANGED lineVars

\* rslt = func(...); or rslt = !func(...);
RunCall ==
    /\ AtLine({"call", "getOffset"})
    /\ \E r \in HelperResults :
          /\ rslt' = IF Negated(gen.code[pc].f) THEN (IF r = 0 THEN 1 ELSE 0) ELSE r
          /\ sawNeg' = (sawNeg \/ r < 0)
          /\ offNeg' = IF gen.code[pc].k = "getOffset" /\ r < 0
                       THEN offNeg \cup gen.code[pc].own ELSE offNeg
    /\ pc' = pc + 1
    /\ UNCHANGED <<haveError, mimeOut, returned>>
    /\ UNCHANGED treeVars
    /\ UNCHANGED strVars
    /\ UNCHANGED lineVars

\* rslt = stringEqualMap(..., mime); or beShortGroup: a match stores the
\* MIME of the matching row
RunMapCall ==
    /\ AtLine({"mapCall"})
    /\ \E r \in HelperResults :
          /\ rslt' = r
          /\ sawNeg' = (sawNeg \/ r < 0)
          /\ offNeg' = offNeg
          /\ IF r > 0
             THEN \E n \in DOMAIN gen.data :
                     /\ gen.data[n].n = gen.code[pc].opt[1]
                     /\ \E k \in DOMAIN gen.data[n].rows :
                           mimeOut' = gen.data[n].rows[k].mime
             ELSE mimeOut' = mimeOut
    /\ pc' = pc + 1
    /\ UNCHANGED <<haveError, returned>>
    /\ UNCHANGED treeVars
    /\ UNCHANGED strVars
    /\ UNCHANGED lineVars

\* if (rslt < 0) haveError = True;
RunIfErr ==
    /\ AtLine({"ifErr"})
    /\ haveError' = (haveError \/ rslt < 0)
    /\ pc' = pc + 1
    /\ UNCHANGED <<rslt, mimeOut, returned, sawNeg, offNeg>>
    /\ UNCHANGED treeVars
    /\ UNCHANGED strVars
    /\ UNCHANGED lineVars

\* else { ... } after if (rslt < 0)
RunElse ==
    /\ AtLine({"else"})
    /\ pc' = IF rslt < 0 THEN AfterBlock(gen.code, pc + 1) ELSE pc + 1
    /\ UNCHANGED <<rslt, haveError, mimeOut, returned, sawNeg, offNeg>>
    /\ UNCHANGED treeVars
    /\ UNCHANGED strVars
    /\ UNCHANGED lineVars

\* if (rslt > 0) { ... }
RunIfPos ==
    /\ AtLine({"ifPos"})
    /\ pc' = IF rslt > 0 THEN pc + 1 ELSE AfterBlock(gen.code, pc + 1)
    /\ UNCHANGED <<rslt, haveError, mimeOut, returned, sawNeg, offNeg>>
    /\ UNCHANGED treeVars
    /\ UNCHANGED strVars
    /\ UNCHANGED lineVars

\* *mime = "...";
RunMime ==
    /\ AtLine({"mime"})
    /\ mimeOut' = gen.code[pc].targ
    /\ pc' = pc + 1
    /\ UNCHANGED <<rslt, haveError, returned, sawNeg, offNeg>>
    /\ UNCHANGED treeVars
    /\ UNCHANGED strVars
    /\ UNCHANGED lineVars

\* return Match;
RunReturn ==
    /\ AtLine({"return"})
    /\ returned' = "Match"
    /\ phase' = "returned"
    /\ UNCHANGED <<pc, rslt, haveError, mimeOut, sawNeg, offNeg>>
    /\ UNCHANGED <<exceptions, tree, stack, last, lnum, line, gen>>
    /\ UNCHANGED strVars
    /\ UNCHANGED lineVars

\* the end of the code stream: if (haveError) return Error; return Fail;
RunEnd ==
    /\ phase = "running"
    /\ pc > Len(gen.code)
    /\ returned' = IF haveError THEN "Error" ELSE "Fail"
    /\ phase' = "returned"
    /\ UNCHANGED <<pc, rslt, haveError, mimeOut, sawNeg, offNeg>>
    /\ UNCHANGED <<exceptions, tree, stack, last, lnum, line, gen>>
    /\ UNCHANGED strVars
    /\ UNCHANGED lineVars

RunTests ==
    \/ RunStart
    \/ RunPlain
    \/ RunCall
    \/ RunMapCall
    \/ RunIfErr
    \/ RunElse
    \/ RunIfPos
    \/ RunMime
    \/ RunReturn
    \/ RunEnd

(***************************************************************************)
(* quoteForC(text): the two calls, one loop iteration per step             *)
(***************************************************************************)
Alphabet == {Ord("\\"), Ord("x"), Ord("a"), Ord("7"), Ord("\"")}

Strings == UNION {[1 .. n -> Alphabet] : n \in 0 .. MaxStrLen}

StrInit ==
    /\ input \in Strings
    /\ ix = 0
    /\ bytes = <<>>
    /\ spc = "split"
    /\ cstr = <<>>
    /\ LineIdle
    /\ MainInit({{}})
    /\ RunIdle

\* one iteration of `while ix < l`
SplitIterate ==
    /\ spc = "split"
    /\ ix < Len(input)
    /\ Len(bytes) < Len(input) + MaxSpin
    /\ LET r == SplitIter(input, ix, bytes)
       IN  /\ ix' = r.ix
           /\ bytes' = r.bytes
           /\ spc' = IF r.raised THEN "raised" ELSE "split"
    /\ UNCHANGED <<input, cstr>>
    /\ UNCHANGED lineVars
    /\ UNCHANGED treeVars
    /\ UNCHANGED runVars

\* the loop condition fails: return bytes
SplitReturn ==
    /\ spc = "split"
    /\ ix >= Len(input)
    /\ spc' = "split_done"
    /\ UNCHANGED <<input, ix, bytes, cstr>>
    /\ UNCHANGED lineVars
    /\ UNCHANGED treeVars
    /\ UNCHANGED runVars

\* bytesToC(bs)
ToC ==
    /\ spc = "split_done"
    /\ LET r == BytesToC(bytes)
       IN  /\ cstr' = r.text
           /\ spc' = IF r.raised THEN "raised" ELSE "c"
    /\ UNCHANGED <<input, ix, bytes>>
    /\ UNCHANGED lineVars
    /\ UNCHANGED treeVars
    /\ UNCHANGED runVars

StrNext == SplitIterate \/ SplitReturn \/ ToC

SpecStr == StrInit /\ [][StrNext]_vars

(***************************************************************************)
(* readFile on one line: stripAllCmnt, strip, and splitLine in steps       *)
(***************************************************************************)
LineAlphabet == {Ord(" "), Ord("a"), Ord(">"), Ord("\\")}

Lines == UNION {[1 .. n -> LineAlphabet] : n \in 0 .. MaxLineLen}

LineInit ==
    /\ lineText \in Lines
    /\ lineRest = <<>>
    /\ lpc = "raw"
    /\ flds = NewFields
    /\ inQuote = FALSE
    /\ inRest = FALSE
    /\ StrIdle
    /\ MainInit({{}})
    /\ RunIdle

\* readFile: line = stripAllCmnt(line); line = line.strip(); blank lines are skipped
CleanLine ==
    /\ lpc = "raw"
    /\ LET cleaned(x) == lineText' = x /\ lpc' = IF x = <<>> THEN "skipped" ELSE "level"
       IN  cleaned(Strip(StripAllCmnt(lineText)))
    /\ UNCHANGED <<lineRest, flds, inQuote, inRest>>
    /\ UNCHANGED strVars
    /\ UNCHANGED treeVars
    /\ UNCHANGED runVars

\* splitLine: fields = Fields(), and the level characters are split out
SplitLevels ==
    /\ lpc = "level"
    /\ LET level(m) ==
               /\ flds' = [NewFields EXCEPT !.levels = m.g1]
               /\ lineRest' = IF m.matched THEN m.g2 ELSE lineText
       IN  level(LevelREMatch(lineText))
    /\ lpc' = "offset"
    /\ inQuote' = FALSE
    /\ inRest' = FALSE
    /\ UNCHANGED lineText
    /\ UNCHANGED strVars
    /\ UNCHANGED treeVars
    /\ UNCHANGED runVars

\* splitLine: [offset, line] = line.split(None, 1), which raises ValueError
\* unless the list has two elements; then the test is split from the rest
SplitOffsetTest ==
    /\ lpc = "offset"
    /\ LET test(offset, parts) ==
               /\ flds' = [flds EXCEPT !.offset = offset, !.test = parts[1]]
               /\ lineRest' = IF Len(parts) > 1 THEN parts[2] ELSE <<>>
               /\ lpc' = "target"
           offset(parts) ==
               IF Len(parts) = 2
               THEN test(parts[1], Split1(parts[2]))
               ELSE lpc' = "raised" /\ UNCHANGED <<flds, lineRest>>
       IN  offset(Split1(lineRest))
    /\ UNCHANGED <<lineText, inQuote, inRest>>
    /\ UNCHANGED strVars
    /\ UNCHANGED treeVars
    /\ UNCHANGED runVars

\* splitLine: one iteration of `for c in line`
TargetChar ==
    /\ lpc = "target"
    /\ lineRest # <<>>
    /\ LET step(r) == flds' = r.flds /\ inQuote' = r.inQuote /\ inRest' = r.inRest
       IN  step(TargetStep(flds, inQuote, inRest, Head(lineRest)))
    /\ lineRest' = Tail(lineRest)
    /\ UNCHANGED <<lineText, lpc>>
    /\ UNCHANGED strVars
    /\ UNCHANGED treeVars
    /\ UNCHANGED runVars

\* splitLine: fields.msg = fields.msg.strip(); return fields
SplitLineReturn ==
    /\ lpc = "target"
    /\ lineRest = <<>>
    /\ flds' = [flds EXCEPT !.msg = Strip(@)]
    /\ lpc' = "done"
    /\ UNCHANGED <<lineText, lineRest, inQuote, inRest>>
    /\ UNCHANGED strVars
    /\ UNCHANGED treeVars
    /\ UNCHANGED runVars

LineNext == CleanLine \/ SplitLevels \/ SplitOffsetTest \/ TargetChar \/ SplitLineReturn

SpecLine == LineInit /\ [][LineNext]_vars

(***************************************************************************)
(* stripAllCmnt called on a string, and again on its result                *)
(***************************************************************************)
CmntAlphabet == {Ord("#"), Ord(" "), Ord("a"), 10}

CmntInit ==
    /\ lineText \in UNION {[1 .. n -> CmntAlphabet] : n \in 0 .. MaxCmntLen}
    /\ lineRest = <<>>
    /\ lpc = "unstripped"
    /\ flds = NewFields
    /\ inQuote = FALSE
    /\ inRest = FALSE
    /\ StrIdle
    /\ MainInit({{}})
    /\ RunIdle

\* line = stripAllCmnt(line)
StripCall ==
    /\ lpc \in {"unstripped", "stripped"}
    /\ lineText' = StripAllCmnt(lineText)
    /\ lpc' = IF lpc = "unstripped" THEN "stripped" ELSE "stripped twice"
    /\ UNCHANGED <<lineRest, flds, inQuote, inRest>>
    /\ UNCHANGED strVars
    /\ UNCHANGED treeVars
    /\ UNCHANGED runVars

SpecCmnt == CmntInit /\ [][StripCall]_vars

(***************************************************************************)
(* Reading a magic file: rule lines at four levels, directives, a name     *)
(***************************************************************************)
M_ab == S(<<"a", "/", "b">>)

M_xc == S(<<"a", "/", "x", "-", "c">>)

ReadCat ==
    {Fields(0, S(<<"0">>), T_string, S(<<"a", "b">>)),
     Fields(1, S(<<"4">>), T_string, S(<<"c">>)),
     Fields(2, S(<<"8">>), T_beshort, S(<<"1">>)),
     Fields(3, S(<<"&", "2">>), T_string, S(<<"d">>)),
     Fields(0, F_mime, M_ab, <<>>),
     Fields(0, F_mime, M_xc, <<>>),
     Fields(0, F_strength, S(<<"+">>), S(<<"1">>)),
     Fields(0, F_apple, S(<<"A">>), <<>>),
     Fields(0, S(<<"0">>), F_name, S(<<"n">>))}

ReadInit == MainInit({{}}) /\ StrIdle /\ LineIdle /\ RunIdle

ReadNext == ReadLine(ReadCat, MaxReadLines)

SpecRead == ReadInit /\ [][ReadNext]_vars

(***************************************************************************)
(* Main on a magic file of rules at three levels with two MIME types, and  *)
(* every exception set over them                                           *)
(***************************************************************************)
PruneCat ==
    {Fields(0, S(<<"0">>), T_string, S(<<"a", "b">>)),
     Fields(1, S(<<"4">>), T_string, S(<<"c">>)),
     Fields(2, S(<<"8">>), T_beshort, S(<<"1">>)),
     Fields(0, F_mime, M_ab, <<>>),
     Fields(0, F_mime, M_xc, <<>>)}

PruneInit == MainInit(SUBSET {M_ab, M_xc}) /\ StrIdle /\ LineIdle /\ RunIdle

PruneNext == ReadLine(PruneCat, MaxPruneLines) \/ Prune \/ Check \/ Generate

SpecPrune == PruneInit /\ [][PruneNext]_vars

\* the Tests of the tree after pruneTree
Surviving == Descendants(tree, Root)

RECURSIVE Ancestors(_, _)
\* the parent of t, its parent, and so on up to the root
Ancestors(T, t) ==
    IF T[t].parent = 0 THEN {} ELSE {T[t].parent} \cup Ancestors(T, T[t].parent)

HasMime(t) == tree[t].setMime # None /\ tree[t].setMime # <<>>

(***************************************************************************)
(* C2                                                                      *)
(***************************************************************************)
\* C2: after root.pruneTree(E) every Test still in the tree is active, and
\* so is every one of its ancestors up to and including the root.
C2_SurvivorsActive ==
    phase # "read" =>
        \A t \in Surviving :
            /\ tree[t].active
            /\ Root \in Ancestors(tree, t)
            /\ \A p \in Ancestors(tree, t) : tree[p].active

\* a level 2 Test survived below two Tests that carry no MIME themselves,
\* and some other Test was pruned
C2_DeepSurvivor ==
    /\ phase = "pruned"
    /\ \E t \in Surviving :
          /\ tree[t].level = 2
          /\ \A p \in Ancestors(tree, t) : ~HasMime(p)
    /\ \E t \in 2 .. Len(tree) : t \notin Surviving

(***************************************************************************)
(* C3                                                                      *)
(***************************************************************************)
\* C3: after root.pruneTree(E) every surviving Test carries a setMime that
\* is not in E or has a surviving active descendant; every leaf of the
\* pruned tree carries a MIME that is not in E.
C3_NoDeadBranch ==
    phase # "read" =>
        \A t \in Surviving :
            /\ \/ HasMime(t) /\ tree[t].setMime \notin exceptions
               \/ \E d \in Descendants(tree, t) : tree[d].active
            /\ tree[t].subtests = <<>> => HasMime(t) /\ tree[t].setMime \notin exceptions

\* a leaf whose MIME is in E was pruned, and its sibling, kept with a MIME
\* not in E, keeps their MIME-less parent
C3_ExceptedLeafPruned ==
    /\ phase = "pruned"
    /\ \E t \in 2 .. Len(tree) :
          /\ t \notin Surviving
          /\ HasMime(t) /\ tree[t].setMime \in exceptions
          /\ tree[t].parent \in Surviving
          /\ ~HasMime(tree[t].parent)
          /\ \E c \in Surviving : tree[c].parent = tree[t].parent

(***************************************************************************)
(* C1                                                                      *)
(***************************************************************************)
\* the MIME texts in the output: the *mime assignments of the code stream
\* and the rows of the ShortMap and StringMap tables
EmittedMimes ==
    {gen.code[k].targ : k \in {j \in DOMAIN gen.code : gen.code[j].k = "mime"}}
        \cup UNION {{gen.data[n].rows[k].mime : k \in DOMAIN gen.data[n].rows} :
                      n \in DOMAIN gen.data}

\* C1: after pruneTree(E) and code generation no MIME string of E is in
\* the output, neither in a *mime assignment nor in a table row.
C1_NoExceptedMimeEmitted ==
    phase = "generated" =>
        \A m \in exceptions : QuoteForC(m).text \notin EmittedMimes

\* the same where no Test whose MIME is in E has a descendant with a MIME
\* that is not in E
NoExceptedMimeOnLeaves ==
    (/\ phase = "generated"
     /\ \A t \in 2 .. Len(tree) :
            HasMime(t) /\ tree[t].setMime \in exceptions
                => \A d \in 2 .. Len(tree) :
                       t \in Ancestors(tree, d) /\ HasMime(d)
                           => tree[d].setMime \in exceptions)
        => \A m \in exceptions : QuoteForC(m).text \notin EmittedMimes

(***************************************************************************)
(* Main on a magic file with a rule for every lowering of the generator:   *)
(* A a regex (general test), B a beshort (ShortMap), C a string at offset  *)
(* 0 (StringMap), D a string at offset 4 (simple string), X an integer     *)
(* test of x (always matches), E an indirect, relative offset at level 1, *)
(* G an offset relative to the outer one at level 2.                       *)
(***************************************************************************)
GenCat ==
    {Fields(0, S(<<"0">>), T_regex, S(<<"a">>)),
     Fields(0, S(<<"0">>), T_beshort, S(<<"1">>)),
     Fields(0, S(<<"0">>), T_string, S(<<"a", "b">>)),
     Fields(0, S(<<"4">>), T_string, S(<<"d">>)),
     Fields(0, S(<<"0">>), S(<<"b", "e", "l", "o", "n", "g">>), T_x),
     Fields(1, S(<<"(", "&", "4", ".", "s", "+", "2", ")">>), T_string, S(<<"c">>)),
     Fields(2, S(<<"&", "8">>), S(<<"b", "e", "l", "o", "n", "g">>), S(<<"1">>)),
     Fields(0, F_mime, M_ab, <<>>)}

GenInit == MainInit({{}}) /\ StrIdle /\ LineIdle /\ RunIdle

GenNext == ReadLine(GenCat, MaxGenLines) \/ Prune \/ Check \/ Generate

SpecGen == GenInit /\ [][GenNext]_vars

\* the lines of the code stream printed for Test t
LinesOf(t) == {j \in DOMAIN gen.code : t \in gen.code[j].own}

\* the lines printed for t or for a Test below t
BlockOf(t) == LinesOf(t) \cup UNION {LinesOf(d) : d \in Descendants(tree, t)}

\* the statements printed for t, in order
KindsOf(t) ==
    LET own == SelectSeq(gen.code, LAMBDA l : t \in l.own)
    IN  [j \in DOMAIN own |-> own[j].k]

EndsWith(ks, tl) == Len(ks) >= Len(tl) /\ SubSeq(ks, Len(ks) - Len(tl) + 1, Len(ks)) = tl

(***************************************************************************)
(* C7                                                                      *)
(***************************************************************************)
\* C7: in every sibling list, all the code of a test with strictly lower
\* priority is earlier in the code stream than all the code of a sibling
\* with higher priority, whatever their order in the source.
C7_LowerPriorityFirst ==
    phase = "generated" =>
        \A p \in DOMAIN tree :
            \A m, n \in DOMAIN tree[p].subtests :
                LET a == tree[p].subtests[m]
                    b == tree[p].subtests[n]
                IN  tree[a].priority < tree[b].priority
                        => \A i \in BlockOf(a), j \in BlockOf(b) : i < j

\* two siblings have code, and the later one in the source has the lower
\* priority: the regex of priority 80 came before a test of priority 0
C7_SourceOrderReversed ==
    /\ phase = "generated"
    /\ \E m, n \in DOMAIN tree[Root].subtests :
          LET a == tree[Root].subtests[m]
              b == tree[Root].subtests[n]
          IN  /\ m < n
              /\ tree[a].priority = 80
              /\ tree[b].priority = 0
              /\ BlockOf(a) # {}
              /\ BlockOf(b) # {}

(***************************************************************************)
(* C8                                                                      *)
(***************************************************************************)
\* C8: a Test with setMime has no code for any Test below it, and what is
\* printed for it ends with its success block: the MIME assignment and
\* return Match (in a map lowering, return Match alone: the map function
\* assigns the MIME of the row).
C8_MimeShadowsSubtests ==
    phase = "generated" =>
        \A t \in Surviving :
            HasMime(t) =>
                /\ \A d \in Descendants(tree, t) : LinesOf(d) = {}
                /\ \/ KindsOf(t) = <<>>
                   \/ KindsOf(t) = <<"mime", "return">>
                   \/ /\ EndsWith(KindsOf(t), <<"ifPos", "{", "mime", "return", "}">>)
                      /\ \E j \in LinesOf(t) : gen.code[j].k = "call"
                   \/ /\ EndsWith(KindsOf(t), <<"mapCall", "ifErr", "ifPos", "{", "return", "}">>)
                      /\ \E n \in DOMAIN gen.data :
                            \E k \in DOMAIN gen.data[n].rows : gen.data[n].rows[k].test = t

\* a Test with a MIME and a surviving subtest was lowered to a call with a
\* success block
C8_MimeWithSubtests ==
    /\ phase = "generated"
    /\ \E t \in Surviving :
          /\ HasMime(t)
          /\ tree[t].subtests # <<>>
          /\ \E j \in LinesOf(t) : gen.code[j].k = "call"

(***************************************************************************)
(* C9                                                                      *)
(***************************************************************************)
\* C9: what is printed for a test at level L names no variable offk with
\* k > L, and the first line of it that names offL assigns offL.
C9_OffsetVariableDiscipline ==
    phase = "generated" =>
        \A t \in Surviving :
            LET names(j) == gen.code[j].v \cup gen.code[j].u
                uses == {j \in LinesOf(t) : tree[t].level \in names(j)}
            IN  /\ \A j \in LinesOf(t) : \A k \in names(j) : k <= tree[t].level
                /\ \A j \in uses :
                       (\A i \in uses : j <= i)
                           => gen.code[j].k = "assign" /\ gen.code[j].v = {tree[t].level}

\* code was printed for a level 2 test that adds off1 to off2, below a
\* level 1 test with an indirect offset
C9_RelativeBelowIndirect ==
    /\ phase = "generated"
    /\ \E t \in Surviving :
          /\ tree[t].level = 2
          /\ \E j \in LinesOf(t) :
                gen.code[j].k = "addOuter" /\ gen.code[j].v = {2} /\ gen.code[j].u = {1}
          /\ \E j \in LinesOf(tree[t].parent) : gen.code[j].k = "getOffset"

(***************************************************************************)
(* Running runTests, generated from rules with a negated string test (N), *)
(* a string test with a MIME at offset 0 (StringMap) or 4 (P), an         *)
(* indirect offset at level 1 (I), and a string test at level 2 below it   *)
(***************************************************************************)
RunCat ==
    {Fields(0, S(<<"0">>), T_string, S(<<"!", "a", "b">>)),
     Fields(0, S(<<"4">>), T_string, S(<<"a", "b">>)),
     Fields(0, S(<<"0">>), T_string, S(<<"c">>)),
     Fields(1, S(<<"(", "4", ".", "s", ")">>), S(<<"b", "e", "l", "o", "n", "g">>), S(<<"1">>)),
     Fields(2, S(<<"8">>), T_string, S(<<"d">>)),
     Fields(0, F_mime, M_ab, <<>>)}

RunInit == MainInit({{}}) /\ StrIdle /\ LineIdle /\ RunIdle

RunNext == ReadLine(RunCat, MaxRunLines) \/ Prune \/ Check \/ Generate \/ RunTests

SpecRun == RunInit /\ [][RunNext]_vars

(***************************************************************************)
(* C5                                                                      *)
(***************************************************************************)
\* C5: runTests returns Match with *mime set to an emitted MIME, at a test
\* whose call succeeded (or that always matches); if it does not return
\* Match it returns Error when some runtime function, getOffset included,
\* returned a negative result during the run, and Fail otherwise; and
\* haveError, once set, stays set.
C5_RunTestsResult ==
    /\ [](phase = "returned" =>
            /\ returned = "Match" => mimeOut \in EmittedMimes
            /\ returned # "Match" => (returned = "Error" <=> sawNeg)
            /\ returned # "Match" => (returned = "Fail" <=> ~sawNeg))
    /\ [][phase = "running" /\ haveError => haveError']_vars

\* the same, for the functions whose code has no negated call
RunTestsResultUnnegated ==
    /\ [](phase = "returned" /\ (\A j \in DOMAIN gen.code : ~Negated(gen.code[j].f)) =>
            /\ returned = "Match" => mimeOut \in EmittedMimes
            /\ returned # "Match" => (returned = "Error" <=> sawNeg)
            /\ returned # "Match" => (returned = "Fail" <=> ~sawNeg))
    /\ [][phase = "running" /\ haveError => haveError']_vars

(***************************************************************************)
(* C4                                                                      *)
(***************************************************************************)
\* C4: after any sequence of rule, directive and name lines the nesting
\* stack is non-empty, its bottom element is the root, and the levels of
\* its elements strictly increase from bottom to top.
C4_StackRootedIncreasing ==
    /\ Len(stack) >= 1
    /\ stack[1] = Root
    /\ \A k \in 1 .. Len(stack) - 1 : tree[stack[k]].level < tree[stack[k + 1]].level

\* three Tests were made and a level 0 rule line has just popped the stack
\* back to the root
C4_PoppedToRoot ==
    /\ Len(tree) >= 4
    /\ Len(stack) = 2
    /\ line.levels = <<>>
    /\ last = Len(tree)
    /\ \E t \in 2 .. Len(tree) - 1 : tree[t].level >= 1

(***************************************************************************)
(* C6                                                                      *)
(***************************************************************************)
\* C6: a !:mime line sets setMime and mimex of exactly one Test, the one
\* constructed most recently from an earlier line; it creates no Test,
\* changes no other Test and no other field, and leaves the nesting stack
\* and last unchanged.  (Before the first Test there is nothing to change.)
C6_MimeLineFrame ==
    [][(lnum' = lnum + 1 /\ line'.offset = F_mime)
        => /\ Len(tree') = Len(tree)
           /\ stack' = stack
           /\ last' = last
           /\ last = (IF Len(tree) > 1 THEN Len(tree) ELSE 0)
           /\ \A t \in DOMAIN tree : t # last => tree'[t] = tree[t]
           /\ last # 0 =>
                  tree'[last] = [tree[last] EXCEPT !.setMime = line'.test,
                                                   !.mimex = HasXSubtype(line'.test)]]_vars

\* a !:mime line with an x- subtype has just been applied to the last of
\* several Tests, which is not the first one
C6_MimeApplied ==
    /\ line.offset = F_mime
    /\ line.test = M_xc
    /\ Len(tree) >= 3
    /\ last = Len(tree)
    /\ tree[last].setMime = M_xc
    /\ tree[last].mimex
    /\ tree[2].setMime = M_ab

(***************************************************************************)
(* Reading C source text as adjacent string literals (the C compiler's    *)
(* side of the round trip): a hex escape takes every hex digit that       *)
(* follows it, an octal escape at most three octal digits.                *)
(***************************************************************************)
RECURSIVE GrabAllHex(_, _)
GrabAllHex(t, i) ==
    IF i <= Len(t) /\ t[i] \in HexDigits
    THEN <<t[i]>> \o GrabAllHex(t, i + 1)
    ELSE <<>>

RECURSIVE GrabOct3(_, _, _)
GrabOct3(t, i, n) ==
    IF n < 3 /\ i <= Len(t) /\ t[i] \in OctDigits
    THEN <<t[i]>> \o GrabOct3(t, i + 1, n + 1)
    ELSE <<>>

CSimpleEscapes ==
    cEscapes @@ (Ord("\"") :> Ord("\"")) @@ (Ord("'") :> Ord("'")) @@ (Ord("?") :> Ord("?"))

RECURSIVE ParseCFrom(_, _, _, _)
\* i: position (from 1); inLit: inside a literal; acc: the bytes read so far
ParseCFrom(t, i, inLit, acc) ==
    IF i > Len(t)
    THEN [ok |-> ~inLit, bytes |-> acc]
    ELSE IF ~inLit
    THEN IF t[i] = Ord("\"") THEN ParseCFrom(t, i + 1, TRUE, acc)
         ELSE IF t[i] = Ord(" ") THEN ParseCFrom(t, i + 1, FALSE, acc)
         ELSE [ok |-> FALSE, bytes |-> acc]
    ELSE IF t[i] = Ord("\"") THEN ParseCFrom(t, i + 1, FALSE, acc)
    ELSE IF t[i] # Ord("\\") THEN ParseCFrom(t, i + 1, TRUE, Append(acc, t[i]))
    ELSE IF i + 1 > Len(t) THEN [ok |-> FALSE, bytes |-> acc]
    ELSE LET e == t[i + 1]
         IN  IF e \in DOMAIN CSimpleEscapes
             THEN ParseCFrom(t, i + 2, TRUE, Append(acc, CSimpleEscapes[e]))
             ELSE IF e = Ord("x")
             THEN LET v == GrabAllHex(t, i + 2)
                  IN  IF v = <<>> \/ IntOf(v, 16) > 255
                      THEN [ok |-> FALSE, bytes |-> acc]
                      ELSE ParseCFrom(t, i + 2 + Len(v), TRUE, Append(acc, IntOf(v, 16)))
             ELSE IF e \in OctDigits
             THEN LET v == GrabOct3(t, i + 1, 0)
                  IN  IF IntOf(v, 8) > 255
                      THEN [ok |-> FALSE, bytes |-> acc]
                      ELSE ParseCFrom(t, i + 1 + Len(v), TRUE, Append(acc, IntOf(v, 8)))
             ELSE [ok |-> FALSE, bytes |-> acc]

ParseCLiterals(t) == ParseCFrom(t, 1, FALSE, <<>>)

(***************************************************************************)
(* C10                                                                     *)
(***************************************************************************)
\* C10: for every target string s, quoteForC ends without raising and the
\* text bytesToC(splitStringBytes(s)), read as adjacent C string literals,
\* is exactly the byte sequence splitStringBytes(s).
C10_RoundTripEveryString ==
    /\ spc # "raised"
    /\ spc = "c" => ParseCLiterals(cstr) = [ok |-> TRUE, bytes |-> bytes]

\* The round trip on the strings for which both functions return.
RoundTripWhereReturned ==
    spc = "c" => ParseCLiterals(cstr) = [ok |-> TRUE, bytes |-> bytes]

\* a hex insert followed by a hex digit in the next literal was produced
RoundTripSplitsLiterals ==
    /\ spc = "c"
    /\ \E k \in 1 .. Len(bytes) - 1 : bytes[k] >= 128 /\ bytes[k + 1] \in HexDigits

(***************************************************************************)
(* C11: the decoding the escapes are said to have, read from the front:   *)
(* at most two hex digits after \x, at most three octal digits in an      *)
(* octal escape, the single-character escapes, and any other escaped      *)
(* character copied.                                                       *)
(***************************************************************************)
RECURSIVE DecodeFrom(_, _, _)
\* i: position (from 1); acc: the bytes decoded so far
DecodeFrom(t, i, acc) ==
    LET hex(v) == IF v = <<>> THEN DecodeFrom(t, i + 2, acc)
                  ELSE DecodeFrom(t, i + 2 + Len(v), Append(acc, IntOf(v, 16)))
        oct(v) == DecodeFrom(t, i + 1 + Len(v), Append(acc, IntOf(v, 8)))
        escaped(e) ==
            IF e \in DOMAIN cEscapes THEN DecodeFrom(t, i + 2, Append(acc, cEscapes[e]))
            ELSE IF e = Ord("x") THEN hex(GrabHex(t, i + 1, 0))
            ELSE IF e \in OctDigits THEN oct(GrabOct3(t, i + 1, 0))
            ELSE DecodeFrom(t, i + 2, Append(acc, e))
        char(c) ==
            IF c # Ord("\\") THEN DecodeFrom(t, i + 1, Append(acc, c))
            ELSE IF i = Len(t) THEN Append(acc, c)
            ELSE escaped(t[i + 1])
    IN  IF i > Len(t) THEN acc ELSE char(t[i])

\* a backslash followed by four octal digits
HasLongOctal(t) ==
    \E i \in 1 .. Len(t) - 4 :
        t[i] = Ord("\\") /\ \A j \in 1 .. 4 : t[i + j] \in OctDigits

\* C11: whenever splitStringBytes returns, its bytes are the input decoded
\* with at most two hex digits per \x and at most three octal digits per
\* octal escape, further digits being copied as literal bytes.
C11_DecodesAsSpecified ==
    spc \in {"split_done", "c"} => bytes = DecodeFrom(input, 1, <<>>)

\* The same decoding on the inputs without a run of four octal digits
\* after a backslash.
DecodesWithoutLongOctal ==
    (spc \in {"split_done", "c"} /\ ~HasLongOctal(input)) => bytes = DecodeFrom(input, 1, <<>>)

\* \x followed by three hex digits: two are consumed, the third is copied
DecodesThirdHexDigitLiterally ==
    /\ spc = "split_done"
    /\ input = S(<<"\\", "x", "a", "a", "a">>)
    /\ bytes = <<170, Ord("a")>>

(***************************************************************************)
(* C12                                                                     *)
(***************************************************************************)
RECURSIVE FieldCount(_)
\* the number of whitespace-separated fields of a text
FieldCount(x) ==
    LET count(parts) == IF Len(parts) = 2 THEN 1 + FieldCount(parts[2]) ELSE Len(parts)
    IN  count(Split1(x))

\* msg is the end of the line, set off from what precedes it by a space or a
\* tab, and has no white space at either end
IsTrimmedRemainder(x, msg) ==
    \/ msg = <<>>
    \/ /\ Len(msg) < Len(x)
       /\ SubSeq(x, Len(x) - Len(msg) + 1, Len(x)) = msg
       /\ x[Len(x) - Len(msg)] \in {32, 9}
       /\ msg[1] \notin Whitespace
       /\ msg[Len(msg)] \notin Whitespace

\* C12: on every non-blank, non-comment line with at least two
\* whitespace-separated fields splitLine does not fail, and once it has
\* returned msg is the remainder of the line after the target, trimmed.
C12_SplitLineTotal ==
    /\ (lpc \in {"offset", "target", "raised", "done"} /\ FieldCount(lineText) >= 2)
           => lpc # "raised"
    /\ lpc = "done" => IsTrimmedRemainder(lineText, flds.msg)

\* splitLine fails only when fewer than two fields follow the level
\* characters, that is when the offset or the test is missing.
SplitLineFailsOnlyWithoutTest ==
    /\ lpc = "raised" => FieldCount(lineRest) < 2
    /\ lpc = "done" => IsTrimmedRemainder(lineText, flds.msg)

\* splitLine has returned a target and a message
SplitLineReturnsMessage ==
    /\ lpc = "done"
    /\ flds.target # <<>>
    /\ flds.msg # <<>>

IsOneLine(x) == \A k \in 1 .. Len(x) - 1 : x[k] # 10

\* Idempotence on single lines.
StripAllCmntIdempotentOnLines ==
    [][(lpc = "stripped" /\ IsOneLine(lineText)) => lineText' = lineText]_vars

\* a comment line has been stripped, twice, down to its newline
StrippedCommentLine ==
    /\ lpc = "stripped twice"
    /\ lineText = <<10>>

(***************************************************************************)
(* Main on a magic file of rules with a direct offset, an indirect offset  *)
(* the generator supports, and the three forms Offset.check looks for:     *)
(* the type flag i, an operand with a parenthesis, and an expression       *)
(* offsetRE does not match.                                                *)
(***************************************************************************)
CheckCat ==
    {Fields(0, S(<<"0">>), T_string, S(<<"a", "b">>)),
     Fields(0, S(<<"(", "4", ".", "s", ")">>), S(<<"b", "e", "l", "o", "n", "g">>), S(<<"1">>)),
     Fields(0, S(<<"(", "4", ".", "i", ")">>), S(<<"b", "e", "l", "o", "n", "g">>), S(<<"1">>)),
     Fields(0, S(<<"(", "4", ".", "s", "+", "(", "2", ")", ")">>),
            S(<<"b", "e", "l", "o", "n", "g">>), S(<<"1">>)),
     Fields(0, S(<<"(", ".", "s", ")">>), S(<<"b", "e", "l", "o", "n", "g">>), S(<<"1">>)),
     Fields(0, F_mime, M_ab, <<>>)}

CheckInit == MainInit({{}}) /\ StrIdle /\ LineIdle /\ RunIdle

CheckNext == ReadLine(CheckCat, MaxCheckLines) \/ Prune \/ Check \/ Generate

SpecCheck == CheckInit /\ [][CheckNext]_vars

(***************************************************************************)
(* C14                                                                     *)
(***************************************************************************)
\* an offset of one of the unsupported forms: an indirect expression that
\* does not parse, the type flag i or I, an operand containing "("
UnsupportedOffset(off) ==
    \/ off.indirect /\ off.offset = None
    \/ off.typeFlag \in {S(<<"i">>), S(<<"I">>)}
    \/ off.operand # None /\ \E k \in DOMAIN off.operand : off.operand[k] = Ord("(")

UnsupportedSurvives == \E t \in Surviving : UnsupportedOffset(tree[t].offset)

\* C14: when a Test that survived pruning has an unsupported offset form,
\* root.check() only warns: Main goes on to the code generation.
C14_UnsupportedOffsetOnlyWarns ==
    [][(phase = "pruned" /\ UnsupportedSurvives) => phase' = "checked"]_vars

\* root.check() ends Main exactly when an unsupported offset survives.
CheckStopsOnUnsupportedOffset ==
    [][phase = "pruned" => (phase' = "raised" <=> UnsupportedSurvives)]_vars

\* every one of the three forms has stopped Main
CheckStoppedOnTypeFlag ==
    /\ phase = "raised"
    /\ \E t \in Surviving : tree[t].offset.typeFlag = S(<<"i">>)


(***************************************************************************)
(* C15                                                                     *)
(***************************************************************************)
\* t is one of the rows of a map call
InMapCall(t) == \E j \in LinesOf(t) : gen.code[j].k = "mapCall"

\* t is lowered by putGeneralTest
IsGeneral(t) == ~IsSimpleBeShort(tree, t) /\ ~IsSimpleString(tree, t)

InnerAmps == {<<>>, S(<<"&">>)}

OffsetBases == {S(<<"4">>), S(<<"1", "2">>)}

OffsetFlags == {<<>>, S(<<".", "s">>), S(<<".", "B">>)}

OffsetOps == {<<>>, S(<<"+", "2">>), S(<<"*", "3">>), S(<<"-", "(", "8", ")">>)}

\* the offset field (expr)
Indirect(amp, base, flag, op) == S(<<"(">>) \o amp \o base \o flag \o op \o S(<<")">>)

OffsetCat ==
    {Fields(0, Indirect(a, b, f, o), S(<<"b", "e", "l", "o", "n", "g">>), S(<<"1">>)) :
        a \in InnerAmps, b \in OffsetBases, f \in OffsetFlags, o \in OffsetOps}

\* a target put together from a comparison character, a !, a further
\* operator character and the text compared with, each of them optional
TargetFirsts == {<<>>, S(<<"=">>), S(<<"<">>), S(<<"&">>), S(<<"~">>)}

TargetNots == {<<>>, S(<<"!">>)}

TargetSeconds == {<<>>, S(<<"=">>), S(<<"!">>)}

TargetBodies == {<<>>, S(<<"x">>), S(<<"d">>)}

TargetTests ==
    {T_string, T_search, T_regex, S(<<"b", "e", "l", "o", "n", "g">>),
     S(<<"u", "b", "e", "l", "o", "n", "g">>), S(<<"b", "e", "f", "l", "o", "a", "t">>)}

TargetCat ==
    {Fields(0, S(<<"0">>), t, c \o n \o d \o b) :
        t \in TargetTests, c \in TargetFirsts, n \in TargetNots, d \in TargetSeconds,
        b \in TargetBodies}

\* direct offsets, offsets relative to the outer one, and indirect offsets
\* of the base 0, at level 0 and at level 1
PlainOffsetCat ==
    {Fields(n, off, S(<<"b", "e", "l", "o", "n", "g">>), S(<<"1">>)) :
        n \in {0, 1},
        off \in {S(<<"0">>), S(<<"4">>), S(<<"0", "0">>), S(<<"&", "0">>), S(<<"&", "4">>),
                 S(<<"(", "0", ")">>), S(<<"&", "(", "0", ")">>),
                 S(<<"&", "(", "4", ".", "s", "+", "2", ")">>)}}

\* the flags written after the / of a string test: one or two of c, b, t
\* and W, and three with a repeated b or t
FlagTexts ==
    UNION {[1 .. n -> CharSet(<<"c", "b", "t", "W">>)] : n \in {1, 2}}
        \cup {S(<<"b", "c", "b">>), S(<<"t", "W", "t">>)}

FlagCat ==
    {Fields(0, S(<<"0">>), T_string \o S(<<"/">>) \o fl, S(<<"d">>)) : fl \in FlagTexts}
        \cup {Fields(0, S(<<"0">>), T_search \o S(<<"/", "8", "/", "c", "/", "b">>), S(<<"d">>)),
              Fields(0, S(<<"0">>), T_search \o S(<<"/", "b", "/", "8", "/", "b", "W">>), S(<<"d">>)),
              Fields(0, S(<<"0">>), T_regex \o S(<<"/", "2", "l", "c", "c">>), S(<<"d">>))}

ParseCat == OffsetCat \cup PlainOffsetCat \cup TargetCat \cup FlagCat

ParseInit == MainInit({{}}) /\ StrIdle /\ LineIdle /\ RunIdle

ParseNext == ReadLine(ParseCat, MaxParseLines)

SpecParse == ParseInit /\ [][ParseNext]_vars

\* the line read last has made a Test
LineMadeTest == last # 0 /\ tree[last].lnum = lnum

(***************************************************************************)
(* C16                                                                     *)
(***************************************************************************)
\* what the Offset of (expr) has to record, expr put together from the parts
RecordsParts(off, amp, base, flag, op) ==
    /\ off.indirect
    /\ off.innerRelative = (amp # <<>>)
    /\ off.offset = base
    /\ off.typeFlag = (IF flag = <<>> THEN S(<<"l">>) ELSE Tail(flag))
    /\ op # <<>> => (off.operator = <<op[1]>> /\ off.operand = Tail(op))
    /\ op = <<>> => (off.operator = None /\ off.operand = None)

\* C16: the Offset of an indirect offset field (expr), expr =
\* [&]base[.typeFlag][op operand], has innerRelative iff the & is written,
\* the base as offset, the type flag written or l, and the operator and the
\* operand as separate fields, also when no type flag is written.
C16_IndirectOffsetParts ==
    LineMadeTest =>
        \A a \in InnerAmps, b \in OffsetBases, f \in OffsetFlags, o \in OffsetOps :
            line.offset = Indirect(a, b, f, o)
                => RecordsParts(tree[last].offset, a, b, f, o)

\* C16 holds of the offsets that write a type flag or no operator
IndirectOffsetPartsWithFlag ==
    LineMadeTest =>
        \A a \in InnerAmps, b \in OffsetBases, f \in OffsetFlags, o \in OffsetOps :
            (line.offset = Indirect(a, b, f, o) /\ (f # <<>> \/ o = <<>>))
                => RecordsParts(tree[last].offset, a, b, f, o)

\* without a type flag the operator and the operand stay in the base
OperatorLeftInBase ==
    /\ LineMadeTest
    /\ line.offset = S(<<"(", "4", "+", "2", ")">>)
    /\ tree[last].offset.offset = S(<<"4", "+", "2">>)
    /\ tree[last].offset.operator = None
    /\ tree[last].offset.typeFlag = S(<<"l">>)


(***************************************************************************)
(* C17                                                                     *)
(***************************************************************************)
\* the Tests made before t whose level is below the level of t
LowerBefore(t) == {u \in 2 .. t - 1 : tree[u].level < tree[t].level}

\* C17: while the file is read, the parent of every Test is the Test made
\* most recently before it with a strictly lower level, or the root when
\* there is none; so the level of a Test is above the level of its parent.
C17_ParentIsNearestLowerLevel ==
    phase = "read" =>
        \A t \in 2 .. Len(tree) :
            /\ tree[t].parent = IF LowerBefore(t) = {} THEN Root ELSE SetMax(LowerBefore(t))
            /\ tree[t].level > tree[tree[t].parent].level

\* a Test whose parent is neither the root nor the Test made just before it:
\* a deeper Test in between has been popped
C17_ParentSkipsDeeperTest ==
    /\ phase = "read"
    /\ \E t \in 2 .. Len(tree) :
          /\ tree[t].parent # Root
          /\ tree[t].parent < t - 1
          /\ tree[t - 1].level >= tree[t].level


(***************************************************************************)
(* C18                                                                     *)
(***************************************************************************)
\* the lines of Test t of one kind
KindLines(t, kind) == {j \in LinesOf(t) : gen.code[j].k = kind}

\* the success block of t: what follows its if (rslt > 0)
SuccessBlock(t) == {j \in BlockOf(t) : \E q \in KindLines(t, "ifPos") : j > q}

\* C18: in a run of runTests, once getOffset has returned a negative result
\* for a test with an indirect offset, haveError is set by the error test
\* that follows the call, the helper of the test is not called, and its
\* success block (MIME and return, or its subtests) is not entered.
C18_NegativeOffsetSkipsTest ==
    phase \in {"running", "returned"} =>
        \A t \in offNeg :
            /\ (\E j \in KindLines(t, "ifErr") :
                   pc > j /\ \E q \in KindLines(t, "getOffset") : q < j) => haveError
            /\ pc \notin KindLines(t, "call")
            /\ pc \notin SuccessBlock(t)

\* getOffset has returned a negative result for a test with a helper call
\* and a success block, and the run has gone past all of its code
C18_RanPastFailedOffset ==
    /\ phase \in {"running", "returned"}
    /\ \E t \in offNeg :
          /\ KindLines(t, "call") # {}
          /\ SuccessBlock(t) # {}
          /\ \A j \in BlockOf(t) : pc > j
          /\ haveError

\* the same for a test whose success block is the code of a subtest
C18_RanPastFailedOffsetOfParent ==
    /\ phase \in {"running", "returned"}
    /\ \E t \in offNeg :
          /\ tree[t].subtests # <<>>
          /\ SuccessBlock(t) \ LinesOf(t) # {}
          /\ \A j \in BlockOf(t) : pc > j


(***************************************************************************)
(* Main on a magic file of level 0 rules, two or more for every group of   *)
(* putTests2: string map rows, simple strings of the three operator        *)
(* classes, a beshort row and a general test                               *)
(***************************************************************************)
OrderCat ==
    {Fields(0, S(<<"0">>), T_string, S(<<"b">>)),
     Fields(0, S(<<"0">>), T_string, S(<<"a">>)),
     Fields(0, S(<<"4">>), T_string, S(<<"!", "d">>)),
     Fields(0, S(<<"4">>), T_string, S(<<"d">>)),
     Fields(0, S(<<"4">>), T_string, S(<<">", "d">>)),
     Fields(0, S(<<"0">>), T_beshort, S(<<"1">>)),
     Fields(0, S(<<"0">>), T_regex, S(<<"a">>)),
     Fields(0, F_mime, M_ab, <<>>)}

OrderInit == MainInit({{}}) /\ StrIdle /\ LineIdle /\ RunIdle

OrderNext == ReadLine(OrderCat, MaxOrderLines) \/ Prune \/ Check \/ Generate

SpecOrder == OrderInit /\ [][OrderNext]_vars

(***************************************************************************)
(* C19                                                                     *)
(***************************************************************************)
\* the group of putTests2 that Test t falls in
GroupOf(t) ==
    IF IsSimpleBeShort(tree, t) THEN "beshort"
    ELSE IF ~IsSimpleString(tree, t) THEN "general"
    ELSE IF tree[t].targetOper = S(<<"=">>) /\ IsSimpleStringMime(tree, t) THEN "stringMap"
    ELSE "simpleString"

\* a is emitted before b: its row is above the row of b in their table,
\* or else all of its code is before all the code of b
EmittedBefore(a, b) ==
    IF InMapCall(a) /\ InMapCall(b)
    THEN \E n \in DOMAIN gen.data :
            \E i, j \in DOMAIN gen.data[n].rows :
                i < j /\ gen.data[n].rows[i].test = a /\ gen.data[n].rows[j].test = b
    ELSE \A i \in BlockOf(a), j \in BlockOf(b) : i < j

\* C19: two siblings of the same priority and the same group (beshort
\* rows, string map rows, simple strings, general tests) are emitted in the
\* order of the source.
C19_GroupsInSourceOrder ==
    phase = "generated" =>
        \A p \in DOMAIN tree :
            \A m, n \in DOMAIN tree[p].subtests :
                LET a == tree[p].subtests[m]
                    b == tree[p].subtests[n]
                IN  (m < n /\ tree[a].priority = tree[b].priority /\ GroupOf(a) = GroupOf(b))
                        => EmittedBefore(a, b)

\* equals 1, not equals 2, every other operator 3
OperClass(t) ==
    IF tree[t].targetOper = S(<<"=">>) THEN 1
    ELSE IF tree[t].targetOper = S(<<"=", "!">>) THEN 2
    ELSE 3

\* C19 as the code has it: source order in the beshort rows and the general
\* tests; the simple strings by operator class (equals, not equals, other)
\* and in source order within a class; the string map rows by their bytes
\* and in source order where the bytes are equal.
GroupsInOrderOfOutput ==
    phase = "generated" =>
        \A p \in DOMAIN tree :
            \A m, n \in DOMAIN tree[p].subtests :
                LET a == tree[p].subtests[m]
                    b == tree[p].subtests[n]
                    bytesOf(t) == SplitStringBytes(tree[t].target).bytes
                    first ==
                        IF GroupOf(a) = "simpleString"
                        THEN OperClass(a) < OperClass(b) \/ (OperClass(a) = OperClass(b) /\ m < n)
                        ELSE IF GroupOf(a) = "stringMap"
                        THEN LexLess(bytesOf(a), bytesOf(b)) \/ (bytesOf(a) = bytesOf(b) /\ m < n)
                        ELSE m < n
                IN  (first /\ tree[a].priority = tree[b].priority /\ GroupOf(a) = GroupOf(b))
                        => EmittedBefore(a, b)

\* a string map whose first row is of a Test later in the source than the
\* Test of its second row
RowsOutOfSourceOrder ==
    /\ phase = "generated"
    /\ \E n \in DOMAIN gen.data :
          /\ gen.data[n].name = "stringMap"
          /\ Len(gen.data[n].rows) = 2
          /\ gen.data[n].rows[1].test > gen.data[n].rows[2].test

\* a not equals string test is emitted after an equals string test that is
\* later in the source
SimpleStringsOutOfSourceOrder ==
    /\ phase = "generated"
    /\ \E m, n \in DOMAIN tree[Root].subtests :
          LET a == tree[Root].subtests[m]
              b == tree[Root].subtests[n]
          IN  /\ m < n
              /\ GroupOf(a) = "simpleString" /\ GroupOf(b) = "simpleString"
              /\ OperClass(a) = 2 /\ OperClass(b) = 1
              /\ BlockOf(a) # {} /\ BlockOf(b) # {}
              /\ \A i \in BlockOf(b), j \in BlockOf(a) : i < j


(***************************************************************************)
(* C20                                                                     *)
(***************************************************************************)
\* the comparison characters of the target of a test with this testCode
ComparisonChars(code) ==
    IF code \in {T_string, T_search} \cup floatTests THEN CharSet(<<"=", "<", ">">>)
    ELSE IF code \in integerTests THEN CharSet(<<"=", "<", ">", "&", "^", "~">>)
    ELSE {}

\* oper and tgt are what is said of the target orig: x for the target x;
\* otherwise the comparison character orig starts with, or = when it starts
\* with none, and the ! that follows if there is one; orig is what was
\* consumed followed by tgt
ParsedAsSaid(ops, orig, oper, tgt) ==
    IF orig = T_x THEN oper = T_x /\ tgt = orig
    ELSE LET starts == orig # <<>> /\ orig[1] \in ops
         IN  /\ oper # T_x
             /\ Len(oper) \in {1, 2}
             /\ oper[1] = (IF starts THEN orig[1] ELSE Ord("="))
             /\ Len(oper) = 2 => oper[2] = Ord("!")
             /\ orig = (IF starts THEN <<orig[1]>> ELSE <<>>)
                          \o (IF Len(oper) = 2 THEN S(<<"!">>) ELSE <<>>) \o tgt
             /\ Len(oper) = 1 => (tgt = <<>> \/ tgt[1] # Ord("!"))

\* C20: after parseTest of a string, search, float or integer test
\* targetOper is x exactly when the whole target is x; otherwise it is the
\* comparison character the target starts with (= when it starts with
\* none) and the ! after it if there is one, and target is what follows the
\* characters consumed.  For every other test targetOper is x exactly when the
\* target is x.
C20_TargetOperParsed ==
    LineMadeTest =>
        /\ tree[last].targetOper = T_x <=> line.target = T_x
        /\ ComparisonChars(tree[last].testCode) # {}
              => ParsedAsSaid(ComparisonChars(tree[last].testCode), line.target,
                              tree[last].targetOper, tree[last].target)

\* an integer test of the target &!=d: & and ! are consumed, =d is the target
C20_SecondOperatorStays ==
    /\ LineMadeTest
    /\ tree[last].testCode \in integerTests
    /\ line.target = S(<<"&", "!", "=", "d">>)
    /\ tree[last].targetOper = S(<<"&", "!">>)
    /\ tree[last].target = S(<<"=", "d">>)


(***************************************************************************)
(* Main on a magic file with strength lines between rules of different     *)
(* priorities                                                              *)
(***************************************************************************)
StrengthCat ==
    {Fields(0, S(<<"0">>), T_regex, S(<<"a">>)),
     Fields(0, S(<<"4">>), T_string, S(<<"d">>)),
     Fields(1, S(<<"4">>), S(<<"b", "e", "l", "o", "n", "g">>), S(<<"1">>)),
     Fields(0, F_mime, M_ab, <<>>),
     Fields(0, F_strength, S(<<"+">>), S(<<"9", "0">>)),
     Fields(0, F_strength, S(<<"*">>), S(<<"3">>)),
     Fields(0, F_strength, S(<<"/">>), S(<<"0">>)),
     Fields(0, F_strength, S(<<"-">>), S(<<"x", "1">>))}

StrengthNext == ReadLine(StrengthCat, MaxStrengthLines) \/ Prune \/ Check \/ Generate

StrengthInit == MainInit({{}}) /\ StrIdle /\ LineIdle /\ RunIdle

SpecStrength == StrengthInit /\ [][StrengthNext]_vars

(***************************************************************************)
(* C21                                                                     *)
(***************************************************************************)
RECURSIVE EraseFirst(_, _)
\* the first k Tests of the tree without their strength
EraseFirst(T, k) ==
    IF k = 0 THEN <<>> ELSE Append(EraseFirst(T, k - 1), [T[k] EXCEPT !.strength = 0])

\* the tree without what the strength lines have written
EraseStrength(T) == EraseFirst(T, Len(T))

\* a line is read in this step
ReadsLine == phase = "read" /\ lnum' = lnum + 1

\* what every step other than the reading of a strength line does is the
\* same on the erased tree
StepsIgnoreStrength ==
    /\ (ReadsLine /\ line'.offset # F_strength)
          => /\ EraseStrength(tree')
                   = EraseStrength(ParseFields(EraseStrength(tree), stack, line', lnum', last).tests)
             /\ phase' = "read"
    /\ (phase = "read" /\ phase' = "pruned")
          => EraseStrength(tree') = PruneTree(EraseStrength(tree), Root, exceptions)
    /\ phase = "checked"
          => /\ phase' = "generated" <=> ~PutRootRaises(EraseStrength(tree))
             /\ phase' = "generated" => gen' = PutRoot(EraseStrength(tree))

\* C21: the output is the same whatever the strength lines of the file: a
\* strength line changes nothing but the strength of Tests and the program
\* goes on, and every other step, the generation of the output included,
\* does the same whatever the strengths.
C21_StrengthNeverAffectsOutput ==
    [][/\ (ReadsLine /\ line'.offset = F_strength)
             => /\ phase' = "read"
                /\ EraseStrength(tree') = EraseStrength(tree)
                /\ stack' = stack
                /\ last' = last
       /\ StepsIgnoreStrength]_vars

\* the strength line is one that setStrength takes: a decimal number, and
\* not a division by zero
TakenBySetStrength(f) ==
    /\ \A k \in 2 .. Len(f) : f[k] \in Digits
    /\ ~(f[1] = Ord("/") /\ IntOf(Tail(f), 10) = 0)

\* C21 holds of the strength lines that setStrength takes
StrengthTakenNeverAffectsOutput ==
    [][/\ (ReadsLine /\ line'.offset = F_strength
               /\ TakenBySetStrength(line'.test \o line'.target))
             => /\ phase' = "read"
                /\ EraseStrength(tree') = EraseStrength(tree)
                /\ stack' = stack
                /\ last' = last
       /\ StepsIgnoreStrength]_vars

\* output was generated from a tree in which a strength line has changed
\* the strength of a Test
GeneratedWithStrength ==
    /\ phase = "generated"
    /\ gen.code # <<>>
    /\ \E t \in Surviving : tree[t].strength # 0

\* a strength line has ended the program
StrengthLineRaised == phase = "raised" /\ line.offset = F_strength


(***************************************************************************)
(* Main on a magic file of beshort rules: plain, unsigned, with another    *)
(* operator, with a mask, at another offset, and at level 1                *)
(***************************************************************************)
ShortCat ==
    {Fields(0, S(<<"0">>), T_beshort, S(<<"1">>)),
     Fields(0, S(<<"0">>), S(<<"u">>) \o T_beshort, S(<<"1">>)),
     Fields(0, S(<<"0">>), T_beshort, S(<<"<", "1">>)),
     Fields(0, S(<<"0">>), T_beshort \o S(<<"&", "0", "x", "f", "0">>), S(<<"2">>)),
     Fields(0, S(<<"4">>), T_beshort, S(<<"1">>)),
     Fields(1, S(<<"0">>), T_beshort, S(<<"3">>)),
     Fields(0, F_mime, M_ab, <<>>)}

ShortNext == ReadLine(ShortCat, MaxShortLines) \/ Prune \/ Check \/ Generate

ShortInit == MainInit({{}}) /\ StrIdle /\ LineIdle /\ RunIdle

SpecShort == ShortInit /\ [][ShortNext]_vars

(***************************************************************************)
(* C22                                                                     *)
(***************************************************************************)
\* the rows of the ShortMap tables, each with the number of its table
ShortRows ==
    UNION {{[n |-> n, k |-> k] : k \in DOMAIN gen.data[n].rows} :
              n \in {m \in DOMAIN gen.data : gen.data[m].name = "beshortMap"}}

\* the rows of Test t
ShortRowsOf(t) == {r \in ShortRows : gen.data[r.n].rows[r.k].test = t}

\* the sibling list of t is lowered: no Test above t has a MIME
IsLowered(t) == \A a \in Ancestors(tree, t) : ~HasMime(a)

\* C22: a lowered sibling has a row in a ShortMap table iff it is a beshort
\* test, not unsigned, with targetOper =, a setMime and a noOffset offset;
\* it has one row, with its target, its mask or 0xffff, and its MIME; no
\* call and no MIME assignment is printed for it; the rows of a table
\* are in source order.
C22_BeShortTable ==
    phase = "generated" =>
        /\ \A t \in {u \in Surviving : IsLowered(u)} :
              /\ ShortRowsOf(t) # {}
                    <=> /\ tree[t].testCode = T_beshort
                        /\ ~tree[t].unsigned
                        /\ tree[t].targetOper = S(<<"=">>)
                        /\ HasMime(t)
                        /\ tree[t].offset.noOffset
              /\ \A r \in ShortRowsOf(t) :
                    /\ ShortRowsOf(t) = {r}
                    /\ gen.data[r.n].rows[r.k].targ = tree[t].target
                    /\ gen.data[r.n].rows[r.k].mask
                           = (IF tree[t].testMask = None THEN S(<<"0", "x", "f", "f", "f", "f">>)
                              ELSE tree[t].testMask)
                    /\ gen.data[r.n].rows[r.k].mime = QuoteForC(tree[t].setMime).text
                    /\ \A j \in LinesOf(t) : gen.code[j].k \notin {"call", "mime", "assign"}
                    /\ \E j \in LinesOf(t) :
                          gen.code[j].k = "mapCall" /\ gen.code[j].f = "beShortGroup"
        /\ \A r, q \in ShortRows :
              (r.n = q.n /\ r.k < q.k)
                  => gen.data[r.n].rows[r.k].test < gen.data[q.n].rows[q.k].test

\* a table of two rows, the second with a mask
C22_TableOfTwoRows ==
    /\ phase = "generated"
    /\ \E r \in ShortRows :
          /\ r.k = 2
          /\ gen.data[r.n].rows[r.k].mask = S(<<"0", "x", "f", "0">>)

\* a table, and beside it an unsigned beshort test that has a call of its own
C22_TableBesideUnsigned ==
    /\ phase = "generated"
    /\ ShortRows # {}
    /\ \E t \in Surviving :
          /\ tree[t].unsigned
          /\ ShortRowsOf(t) = {}
          /\ KindLines(t, "call") # {}


(***************************************************************************)
(* C23                                                                     *)
(***************************************************************************)
\* C23: the Offset of every offset field is simple only if it is neither
\* indirect nor relative to the outer offset, noOffset only if it is
\* simple, and noOffset exactly when it is simple and its base is the text
\* 0, that is when the field is the text 0.
C23_SimpleAndNoOffset ==
    LineMadeTest =>
        LET off == tree[last].offset
        IN  /\ off.simple => (~off.indirect /\ ~off.outerRelative)
            /\ off.noOffset => off.simple
            /\ off.noOffset <=> (off.simple /\ off.offset = S(<<"0">>))
            /\ off.noOffset <=> line.offset = S(<<"0">>)

\* the field &0: the base is the text 0, and the Offset is relative to the
\* outer one, so neither simple nor noOffset
C23_RelativeZero ==
    /\ LineMadeTest
    /\ line.offset = S(<<"&", "0">>)
    /\ tree[last].offset.offset = S(<<"0">>)
    /\ tree[last].offset.outerRelative
    /\ ~tree[last].offset.simple
    /\ ~tree[last].offset.noOffset


(***************************************************************************)
(* C24                                                                     *)
(***************************************************************************)
IsSortedText(f) == \A i, j \in DOMAIN f : i < j => f[i] <= f[j]

HasNoRepeat(f) == \A i, j \in DOMAIN f : i # j => f[i] # f[j]

\* C24: after parseTest testFlags is sorted, has no character twice and has
\* neither b nor t.
C24_TestFlagsCleanSet ==
    LineMadeTest =>
        /\ IsSortedText(tree[last].testFlags)
        /\ HasNoRepeat(tree[last].testFlags)
        /\ \A k \in DOMAIN tree[last].testFlags :
              tree[last].testFlags[k] \notin CharSet(<<"b", "t">>)

\* what is written after the first / of the test field, without the /
WrittenFlags(test) ==
    IF FirstIndex(test, Ord("/")) = 0 THEN <<>>
    ELSE SelectSeq(SubSeq(test, FirstIndex(test, Ord("/")) + 1, Len(test)),
                   LAMBDA c : c # Ord("/"))

\* C24 holds of the tests that write no flag twice, and testFlags is sorted
\* in any case
TestFlagsCleanWhenWrittenOnce ==
    LineMadeTest =>
        /\ IsSortedText(tree[last].testFlags)
        /\ HasNoRepeat(WrittenFlags(line.test))
              => /\ HasNoRepeat(tree[last].testFlags)
                 /\ \A k \in DOMAIN tree[last].testFlags :
                       tree[last].testFlags[k] \notin CharSet(<<"b", "t">>)

\* string/bcb: one b is removed, the other stays
SecondFlagStays ==
    /\ LineMadeTest
    /\ line.test = T_string \o S(<<"/", "b", "c", "b">>)
    /\ tree[last].testFlags = S(<<"b", "c">>)


(***************************************************************************)
(* C25                                                                     *)
(***************************************************************************)
\* quoteForC runs in one thread: a step that can be taken is taken
SpecStrLive == SpecStr /\ WF_vars(StrNext)

\* the while loop is left, by the return or by an exception
SplitLeavesLoop == <>(spc # "split")

\* C25: splitStringBytes terminates on every input string, a string that
\* ends with a lone backslash included.  The condition of the while loop
\* reads ix and l only and an iteration reads input and ix only, so the loop
\* ends exactly when no iteration leaves ix where it was without raising:
\* such an iteration is repeated for ever.
C25_SplitTerminates ==
    [][SplitIterate => (spc' = "raised" \/ ix' > ix)]_vars

\* the iteration is at a backslash that is the last character of the input
AtLoneBackslash == ix = Len(input) - 1 /\ input[Len(input)] = Ord("\\")

\* every other iteration advances ix or raises, so that the loop ends
IterationAdvancesUnlessLoneBackslash ==
    [][(SplitIterate /\ ~AtLoneBackslash) => (ix' > ix /\ ix' <= Len(input))]_vars

\* the loop has appended a backslash and is where it was
SpinsOnLoneBackslash ==
    /\ spc = "split"
    /\ AtLoneBackslash
    /\ Len(bytes) > Len(input)


(***************************************************************************)
(* C29                                                                     *)
(***************************************************************************)
IsByteList(bs) == \A k \in DOMAIN bs : bs[k] \in 0 .. 255

\* C29: splitStringBytes returns, without failing, a list of integers in
\* 0..255 for every input string, a \x followed by no hex digit and an octal
\* escape followed by further octal digits included.
C29_SplitReturnsBytes ==
    LET use(r) == r.returns /\ IsByteList(r.bytes)
    IN  use(SplitStringBytes(input))

\* the iteration is at an escape, a backslash followed by a character
AtEscape == ix + 1 < Len(input) /\ input[ix + 1] = Ord("\\")

\* the iteration is at \x with no hex digit after it
AtBareHex ==
    /\ AtEscape
    /\ input[ix + 2] = Ord("x")
    /\ GrabHex(input, ix + 2, 0) = <<>>

\* the iteration is at an octal escape whose digits are worth more than 255
AtWideOctal ==
    /\ AtEscape
    /\ input[ix + 2] \in OctDigits
    /\ IntOf(<<input[ix + 2]>> \o GrabOct(input, ix + 2), 8) > 255

\* every other iteration but the one at a lone backslash appends one byte
\* of 0..255 and does not raise
IterationAppendsByteUnlessBareOrWide ==
    [][(SplitIterate /\ ~AtLoneBackslash /\ ~AtBareHex /\ ~AtWideOctal)
          => /\ spc' = "split"
             /\ Len(bytes') = Len(bytes) + 1
             /\ bytes'[Len(bytes')] \in 0 .. 255]_vars

\* \x with no hex digit: int("", 16) has raised
BareHexRaised == spc = "raised" /\ bytes = <<>> /\ ix = 2

\* \777 has been returned as the one integer 511
OctalOver255Returned == spc = "split_done" /\ bytes = <<511>>


(***************************************************************************)
(* C30                                                                     *)
(***************************************************************************)
\* C30: a rule line nested under a name line never becomes a subtest of a
\* Test made from a line that precedes the name line.  Stated of the rule
\* line that follows the name line and is deeper than it: the parent of its
\* Test is the root, every other Test being of an earlier line.
C30_NameLineClosesSubtree ==
    [][(/\ ReadsLine
        /\ line.test = F_name
        /\ Len(line'.levels) > Len(line.levels)
        /\ last' # 0
        /\ tree'[last'].lnum = lnum')
          => \/ tree'[last'].parent = Root
             \/ tree'[tree'[last'].parent].lnum > lnum]_vars

\* the name line leaves the tree and the stack of readFile as they are
NameLineIsNoOp ==
    [][(ReadsLine /\ line'.test = F_name)
          => /\ tree' = tree
             /\ stack' = stack
             /\ last' = last]_vars


(***************************************************************************)
(* Main on a magic file of rules that always match, rules with an offset   *)
(* relative to the outer one, and a rule three levels down                 *)
(***************************************************************************)
NestCat ==
    {Fields(0, S(<<"0">>), T_regex, S(<<"a">>)),
     Fields(0, S(<<"0">>), S(<<"b", "e", "l", "o", "n", "g">>), T_x),
     Fields(0, S(<<"&", "4">>), S(<<"b", "e", "l", "o", "n", "g">>), S(<<"1">>)),
     Fields(1, S(<<"&", "4">>), S(<<"b", "e", "l", "o", "n", "g">>), S(<<"1">>)),
     Fields(1, S(<<"(", "&", "4", ".", "s", ")">>), T_string, S(<<"c">>)),
     Fields(3, S(<<"8">>), T_string, S(<<"d">>)),
     Fields(0, F_mime, M_ab, <<>>)}

NestNext == ReadLine(NestCat, MaxNestLines) \/ Prune \/ Check \/ Generate

NestInit == MainInit({{}}) /\ StrIdle /\ LineIdle /\ RunIdle

SpecNest == NestInit /\ [][NestNext]_vars

(***************************************************************************)
(* C26                                                                     *)
(***************************************************************************)
\* the N of the variables offN declared by putRoot
DeclaredVars == {gen.decls[k] : k \in DOMAIN gen.decls}

\* the N of the variables offN named in line j of the code stream
NamedVars(j) == gen.code[j].v \cup gen.code[j].u

\* C26: every offset variable named in the code stream is one of
\* off0..off(D-1), the variables putRoot declares, D the depth of the
\* pruned tree.
C26_OffsetVarsDeclared ==
    phase = "generated" =>
        /\ DeclaredVars = 0 .. (Depth(tree, Root) - 1)
        /\ \A j \in DOMAIN gen.code : NamedVars(j) \subseteq DeclaredVars

\* the levels go down the tree in steps of one, and no rule at level 0 has
\* an offset relative to the outer one
LevelsInSteps ==
    \A t \in Descendants(tree, Root) :
        /\ tree[t].level = tree[tree[t].parent].level + 1
        /\ tree[t].level = 0
              => ~tree[t].offset.outerRelative /\ ~tree[t].offset.innerRelative

\* C26 holds of the trees whose levels go in steps
OffsetVarsDeclaredInSteps ==
    (phase = "generated" /\ LevelsInSteps) =>
        \A j \in DOMAIN gen.code : NamedVars(j) \subseteq DeclaredVars

\* off3 is assigned in the code of a tree of depth 3
UndeclaredVarNamed ==
    /\ phase = "generated"
    /\ Depth(tree, Root) = 3
    /\ \E j \in DOMAIN gen.code : gen.code[j].k = "assign" /\ gen.code[j].v = {3}

\* a rule at level 0 adds the variable numbered -1
OuterOfTopNamed ==
    /\ phase = "generated"
    /\ \E j \in DOMAIN gen.code : gen.code[j].k = "addOuter" /\ gen.code[j].u = {-1}


(***************************************************************************)
(* C27                                                                     *)
(***************************************************************************)
\* line j follows a `return Match;` of its own block or of a block around
\* it: no line between them is indented less than the return
DeadLine(j) ==
    \E r \in 1 .. (j - 1) :
        /\ gen.code[r].k = "return"
        /\ \A m \in (r + 1) .. j :
              gen.code[m].k = "blank" \/ gen.code[m].ind >= gen.code[r].ind

\* C27: no test block of the emitted program is dead code; no line of a
\* test follows an unconditional `return Match;` in the same block.
C27_NoDeadCode ==
    phase = "generated" =>
        \A j \in DOMAIN gen.code : gen.code[j].k # "blank" => ~DeadLine(j)

\* putGeneralTest and putSimpleString print no test for t
AlwaysMatches(t) == tree[t].testCode = T_default \/ tree[t].targetOper = T_x

\* C27 holds of the trees in which no rule that always matches sets a MIME
NoDeadCodeWithoutUntestedMime ==
    (/\ phase = "generated"
     /\ \A t \in Descendants(tree, Root) : ~(AlwaysMatches(t) /\ HasMime(t)))
        => \A j \in DOMAIN gen.code : gen.code[j].k # "blank" => ~DeadLine(j)

\* the call of a test follows the return of a rule that always matches
CallAfterReturn ==
    /\ phase = "generated"
    /\ \E j \in DOMAIN gen.code : gen.code[j].k = "call" /\ DeadLine(j)

(***************************************************************************)
(* C28                                                                     *)
(***************************************************************************)
\* the code of the parent of t assigns the variable that line j adds,
\* before line j
AssignedByParent(j, t) ==
    \E i \in 1 .. (j - 1) :
        /\ gen.code[i].k = "assign"
        /\ gen.code[i].own = {tree[t].parent}
        /\ gen.code[i].v = gen.code[j].u

\* C28: where the code of a test at level L reads off(L-1), the offset
\* preamble of its parent has assigned that variable, also when the parent
\* always matches.
C28_OuterOffsetAssigned ==
    phase = "generated" =>
        \A j \in DOMAIN gen.code :
            gen.code[j].k = "addOuter"
                => \A t \in gen.code[j].own : AssignedByParent(j, t)

\* C28 holds of a test one level below a parent that is tested
OuterOffsetAssignedUnderTest ==
    phase = "generated" =>
        \A j \in DOMAIN gen.code :
            gen.code[j].k = "addOuter"
                => \A t \in gen.code[j].own :
                       (/\ tree[t].parent # Root
                        /\ ~AlwaysMatches(tree[t].parent)
                        /\ tree[t].level = tree[tree[t].parent].level + 1)
                           => AssignedByParent(j, t)

\* a test under a rule that always matches adds off0, which no line assigns
OuterReadUnderUntested ==
    /\ phase = "generated"
    /\ \E j \in DOMAIN gen.code :
          /\ gen.code[j].k = "addOuter"
          /\ gen.code[j].u = {0}
          /\ \A i \in DOMAIN gen.code : gen.code[i].k = "assign" => gen.code[i].v # {0}

\* a test under a tested parent adds the variable its parent assigned
OuterReadUnderTest ==
    /\ phase = "generated"
    /\ \E j \in DOMAIN gen.code :
          /\ gen.code[j].k = "addOuter"
          /\ \A t \in gen.code[j].own : tree[t].parent # Root /\ AssignedByParent(j, t)

====
